---- MODULE Spec2Model ----
(***************************************************************************)
(* Distributed Sudoku solver: the master coordinators and their workers.   *)
(*                                                                         *)
(* Boards are functions  0..n-1 -> (0..n-1 -> 0..n)  so that board[i][j]   *)
(* reads as in the JavaScript source.  A JavaScript object keyed by jobId  *)
(* is a function whose DOMAIN is the set of keys present.  A sub-job id    *)
(* `${jobId}.${k}` is the pair <<jobId, k>>;  id.split('.')[0] is id[1].   *)
(* The clock advances in steps of TickMs milliseconds.                     *)
(***************************************************************************)
EXTENDS Integers, Sequences, FiniteSets, TLC

VARIABLES
    now,                    \* Date.now()
    jobQueue,               \* master.js:15
    completedJobs,          \* master.js:16
    jobSubJobCount,         \* master.js:17
    originalSubJobsStore,   \* master.js:18
    jobStartTimes,          \* master.js:19
    lastUpdateTimes,        \* master.js:20
    currentBlueprintStore,  \* master.js:21
    initialBlueprintStore,  \* master.js:22
    iterationCounts,        \* master.js:23
    finalSolvedResults,     \* master.js:24
    slaves,                 \* per worker process: the sub-job it holds, if any
    response,               \* the last HTTP response the master sent
    pendingJobs,            \* SingleStochasticSearch/master/master.js:15
    currentBlueprints,      \* SingleStochasticSearch/master/master.js:16
    slaveStatus,            \* SingleStochasticSearch/master/master.js:17
    stopped,                \* the worker processes that have stopped for good
    nextSubJobIndex         \* ColumnBasedSolver/master/master.js:22

vars == <<now, jobQueue, completedJobs, jobSubJobCount, originalSubJobsStore,
          jobStartTimes, lastUpdateTimes, currentBlueprintStore,
          initialBlueprintStore, iterationCounts, finalSolvedResults,
          slaves, response, pendingJobs, currentBlueprints, slaveStatus, stopped,
          nextSubJobIndex>>

\* the stores of the masters other than the StochasticSearch master
otherMasters == <<pendingJobs, currentBlueprints, slaveStatus, stopped, nextSubJobIndex>>

----------------------------------------------------------------------------
(* Bounds of the model *)

MaxTicks == 3
TickMs == 60000
NumWorkers == 2
MaxIteration == 2
MaxJobs == 1

Workers == 1..NumWorkers

----------------------------------------------------------------------------
(* JavaScript objects used as maps *)

Has(obj, k) == k \in DOMAIN obj

Put(obj, k, v) == [x \in (DOMAIN obj) \cup {k} |-> IF x = k THEN v ELSE obj[x]]

Del(obj, k) == [x \in (DOMAIN obj) \ {k} |-> obj[x]]

EmptyObj == [x \in {} |-> 0]

\* obj[k] || dflt  for numbers: a missing key and the number 0 both give dflt
OrElse(obj, k, dflt) == IF Has(obj, k) /\ obj[k] # 0 THEN obj[k] ELSE dflt

\* obj[k] || []
OrEmptyList(obj, k) == IF Has(obj, k) THEN obj[k] ELSE <<>>

\* F of a value computed once: an argument is evaluated before the call
Value(v, F(_)) == CHOOSE r \in {F(x) : x \in {v}} : TRUE

----------------------------------------------------------------------------
(* Boards *)

Size(board) == Cardinality(DOMAIN board)

MkBoard(n, F(_, _)) == [i \in 0..(n - 1) |-> [j \in 0..(n - 1) |-> F(i, j)]]

MkBlock(r, c, F(_, _)) == [i \in 0..(r - 1) |-> [j \in 0..(c - 1) |-> F(i, j)]]

\* a board written as a tuple of rows
FromRows(rows) ==
    [i \in 0..(Len(rows) - 1) |-> [j \in 0..(Len(rows[i + 1]) - 1) |-> rows[i + 1][j + 1]]]

SetCell(board, i, j, v) == [board EXCEPT ![i] = [@ EXCEPT ![j] = v]]

\* Math.floor(Math.sqrt(n))
FloorSqrt(n) == CHOOSE r \in 0..n : r * r <= n /\ (r + 1) * (r + 1) > n

getBlockDimensions(n) ==
    LET root == FloorSqrt(n) IN
    IF root * root = n THEN <<root, root>>
    ELSE LET divs == {i \in 1..root : n % i = 0}
             i == CHOOSE d \in divs : \A e \in divs : e <= d
         IN <<i, n \div i>>

blockRowsOf(n) == getBlockDimensions(n)[1]
blockColsOf(n) == getBlockDimensions(n)[2]

isConsistent(board, row, col, value) ==
    LET n == Size(board)
        blockRows == blockRowsOf(n)
        blockCols == blockColsOf(n)
        blockRowStart == (row \div blockRows) * blockRows
        blockColStart == (col \div blockCols) * blockCols
    IN /\ \A i \in 0..(n - 1) : board[row][i] # value
       /\ \A i \in 0..(n - 1) : board[i][col] # value
       /\ \A i \in 0..(blockRows - 1) : \A j \in 0..(blockCols - 1) :
              board[blockRowStart + i][blockColStart + j] # value

\* getCandidates that looks at the row only
rowCandidates(board, row, col) ==
    IF board[row][col] # 0 THEN {}
    ELSE {num \in 1..Size(board) : \A i \in 0..(Size(board) - 1) : board[row][i] # num}

\* the candidates as a set; the source keeps them in ascending order
getCandidates(board, row, col) ==
    IF board[row][col] # 0 THEN {}
    ELSE {num \in 1..Size(board) : isConsistent(board, row, col, num)}

MAX_ITERATIONS == 100

\* one pass of the double loop over the cells, in place, from cell k on
RECURSIVE nakedSinglesPass(_, _, _)
nakedSinglesPass(workingBoard, k, changed) ==
    LET n == Size(workingBoard)
        i == k \div n
        j == k % n
    IN IF k >= n * n THEN [board |-> workingBoard, changed |-> changed]
       ELSE IF workingBoard[i][j] = 0
               /\ Cardinality(getCandidates(workingBoard, i, j)) = 1
            THEN Value(SetCell(workingBoard, i, j,
                               CHOOSE v \in getCandidates(workingBoard, i, j) : TRUE),
                       LAMBDA filled : nakedSinglesPass(filled, k + 1, TRUE))
            ELSE nakedSinglesPass(workingBoard, k + 1, changed)

RECURSIVE nakedSinglesLoop(_, _)
nakedSinglesLoop(workingBoard, iterations) ==
    IF iterations >= MAX_ITERATIONS THEN workingBoard
    ELSE Value(nakedSinglesPass(workingBoard, 0, FALSE),
               LAMBDA p : IF p.changed THEN nakedSinglesLoop(p.board, iterations + 1)
                          ELSE p.board)

\* applyNakedSingles that stops after the first pass over the cells
applyOnePass(board) == nakedSinglesPass(board, 0, FALSE).board

applyNakedSingles(board) == nakedSinglesLoop(board, 0)

isEmptyBoard(board) ==
    \A i \in DOMAIN board : \A j \in DOMAIN board[i] : board[i][j] = 0

\* block.flat().every(cell => cell !== 0)
isBlockSolved(block) ==
    \A i \in DOMAIN block : \A j \in DOMAIN block[i] : block[i][j] # 0

\* extractBlock that starts at <<blockRow, blockCol>>, not at the block's corner
extractBlockUnscaled(board, blockRow, blockCol) ==
    MkBlock(blockRowsOf(Size(board)), blockColsOf(Size(board)),
            LAMBDA i, j : board[blockRow + i][blockCol + j])

extractBlock(board, blockRow, blockCol) ==
    LET n == Size(board)
        blockRows == blockRowsOf(n)
        blockCols == blockColsOf(n)
    IN MkBlock(blockRows, blockCols,
               LAMBDA i, j : board[blockRow * blockRows + i][blockCol * blockCols + j])

isValidSudoku(board) ==
    LET n == Size(board)
        blockRows == blockRowsOf(n)
        blockCols == blockColsOf(n)
        idx == 0..(n - 1)
    IN /\ \A i \in idx : \A j \in idx : board[i][j] # 0
       /\ \A i \in idx : \A j1, j2 \in idx : j1 # j2 => board[i][j1] # board[i][j2]
       /\ \A j \in idx : \A i1, i2 \in idx : i1 # i2 => board[i1][j] # board[i2][j]
       /\ \A blockRow \in 0..((n \div blockRows) - 1) :
          \A blockCol \in 0..((n \div blockCols) - 1) :
              LET block == extractBlock(board, blockRow, blockCol)
                  cells == (0..(blockRows - 1)) \X (0..(blockCols - 1))
              IN \A p, q \in cells : p # q => block[p[1]][p[2]] # block[q[1]][q[2]]

\* board.flat().every(cell => cell !== 0)
isFull(board) == \A i \in DOMAIN board : \A j \in DOMAIN board[i] : board[i][j] # 0

----------------------------------------------------------------------------
(* Sequences *)

Range(s) == {s[k] : k \in 1..Len(s)}

----------------------------------------------------------------------------
(* The block solver run by a worker (StochasticSearch/solver.js)           *)

blockValues(block) ==
    {block[p[1]][p[2]] : p \in (DOMAIN block) \X (DOMAIN block[0])} \ {0}

\* OptimizedStochasticBlockSolver.getCandidates for a cell that is not fixed
solverCandidates(block, referenceBoard, blockRow, blockCol, i, j) ==
    LET n == Size(referenceBoard)
        fullRow == blockRow * blockRowsOf(n) + i
        fullCol == blockCol * blockColsOf(n) + j
    IN {value \in 1..n :
            /\ value \notin blockValues(block)
            /\ isConsistent(referenceBoard, fullRow, fullCol, value)}

\* every block initializeMissingValues can leave behind, filling the empty
\* cells in row-major order from cell k on; values is the list of numbers
\* missing from the block, spliced only when a cell has no candidate
RECURSIVE initializeMissingValues(_, _, _, _, _, _)
initializeMissingValues(block, values, referenceBoard, blockRow, blockCol, k) ==
    LET blockRows == Cardinality(DOMAIN block)
        blockCols == Cardinality(DOMAIN block[0])
        i == k \div blockCols
        j == k % blockCols
    IN IF k >= blockRows * blockCols THEN {block}
       ELSE IF block[i][j] # 0
            THEN initializeMissingValues(block, values, referenceBoard, blockRow, blockCol, k + 1)
            ELSE LET candidates ==
                         solverCandidates(block, referenceBoard, blockRow, blockCol, i, j)
                 IN IF candidates # {}
                    THEN UNION {initializeMissingValues(filled, values, referenceBoard,
                                                        blockRow, blockCol, k + 1) :
                                   filled \in {SetCell(block, i, j, v) : v \in candidates}}
                    ELSE IF values # {}
                    THEN UNION {initializeMissingValues(p[1], p[2], referenceBoard,
                                                        blockRow, blockCol, k + 1) :
                                   p \in {<<SetCell(block, i, j, v), values \ {v}>> :
                                             v \in values}}
                    ELSE initializeMissingValues(block, values, referenceBoard,
                                                 blockRow, blockCol, k + 1)

energy(block, referenceBoard, blockRow, blockCol) ==
    LET n == Size(referenceBoard)
        cells == (DOMAIN block) \X (DOMAIN block[0])
        filled == {p \in cells : block[p[1]][p[2]] > 0}
        \* a filled cell whose value was seen before, and every empty cell
        repeated == Cardinality(filled) - Cardinality(blockValues(block))
        empty == Cardinality(cells \ filled)
        inconsistent ==
            {p \in filled :
                ~isConsistent(referenceBoard, blockRow * blockRowsOf(n) + p[1],
                              blockCol * blockColsOf(n) + p[2], block[p[1]][p[2]])}
    IN repeated + empty + Cardinality(inconsistent)

\* The results solve() can return for a block.  The constructor fills every
\* empty cell, so the solver's own naked-singles pass finds no empty cell and
\* only the fixed cells are sure.  The search (direct assignment of a
\* candidate, swaps) keeps the fixed cells and moves values missing from the
\* block; a block replaces the first one only when its energy is lower.
solutions(block, missing, first, referenceBoard, blockRow, blockCol) ==
    LET cells == (DOMAIN block) \X (DOMAIN block[0])
        fixed == [i \in DOMAIN block |-> [j \in DOMAIN block[i] |-> block[i][j] # 0]]
        searched == {[i \in DOMAIN block |-> [j \in DOMAIN block[i] |->
                         IF block[i][j] # 0 THEN block[i][j] ELSE filling[<<i, j>>]]] :
                     filling \in [{p \in cells : block[p[1]][p[2]] = 0} -> missing]}
        energies == {energy(b0, referenceBoard, blockRow, blockCol) : b0 \in first}
        worst == CHOOSE e \in energies : \A f \in energies : f <= e
        blocks == first \cup
                  Value(worst, LAMBDA e : {b \in searched :
                            energy(b, referenceBoard, blockRow, blockCol) < e})
    IN Value(fixed, LAMBDA sure : {[block |-> b, sure |-> sure] : b \in blocks})

StochasticBlockSolver(fullBoard, blockRow, blockCol, referenceBoard) ==
    Value(extractBlock(fullBoard, blockRow, blockCol), LAMBDA block :
    Value((1..Size(fullBoard)) \ blockValues(block), LAMBDA missing :
    Value(initializeMissingValues(block, missing, referenceBoard, blockRow, blockCol, 0),
          LAMBDA first :
              solutions(block, missing, first, referenceBoard, blockRow, blockCol))))

\* the request bodies solveSubJob can POST to /result for a job
solveSubJob(job) ==
    LET sureMask == [i \in DOMAIN job.board |-> [j \in DOMAIN job.board[i] |-> FALSE]]
    IN IF isBlockSolved(job.board)
       THEN {[id |-> job.id, board |-> job.board, blockRow |-> job.blockRow,
              blockCol |-> job.blockCol, sure |-> sureMask, iteration |-> job.iteration]}
       ELSE {[id |-> job.id, board |-> r.block, blockRow |-> job.blockRow,
              blockCol |-> job.blockCol, sure |-> r.sure, iteration |-> job.iteration] :
                 r \in UNION {StochasticBlockSolver(referenceBoard, job.blockRow,
                                                    job.blockCol, referenceBoard) :
                                  referenceBoard \in
                                      IF job.partialBoard # {} THEN job.partialBoard
                                      ELSE {job.originalBoard}}}

----------------------------------------------------------------------------
(* StochasticSearch master: the functions of master.js, each taking the    *)
(* master's stores as a record m and giving the stores it leaves behind    *)

Master ==
    [jobQueue |-> jobQueue, completedJobs |-> completedJobs,
     jobSubJobCount |-> jobSubJobCount, originalSubJobsStore |-> originalSubJobsStore,
     jobStartTimes |-> jobStartTimes, lastUpdateTimes |-> lastUpdateTimes,
     currentBlueprintStore |-> currentBlueprintStore,
     initialBlueprintStore |-> initialBlueprintStore,
     iterationCounts |-> iterationCounts, finalSolvedResults |-> finalSolvedResults]

Commit(m) ==
    /\ jobQueue' = m.jobQueue
    /\ completedJobs' = m.completedJobs
    /\ jobSubJobCount' = m.jobSubJobCount
    /\ originalSubJobsStore' = m.originalSubJobsStore
    /\ jobStartTimes' = m.jobStartTimes
    /\ lastUpdateTimes' = m.lastUpdateTimes
    /\ currentBlueprintStore' = m.currentBlueprintStore
    /\ initialBlueprintStore' = m.initialBlueprintStore
    /\ iterationCounts' = m.iterationCounts
    /\ finalSolvedResults' = m.finalSolvedResults

\* (completedJobs[parentId] || []).filter(job => job.iteration === currentIteration)
currentResultsOf(m, parentId, currentIteration) ==
    SelectSeq(OrEmptyList(m.completedJobs, parentId),
              LAMBDA job : job.iteration = currentIteration)

\* the blocks in the order of the nested blockRow, blockCol loops
blockList(n) ==
    LET numBlockCols == n \div blockColsOf(n)
        numBlockRows == n \div blockRowsOf(n)
    IN [k \in 1..(numBlockRows * numBlockCols) |->
            <<(k - 1) \div numBlockCols, (k - 1) % numBlockCols>>]

\* splitAndQueueJob that does not skip the blocks without a zero
splitEveryBlock(m, jobId, board, gridSize, isRequeued) ==
    LET iteration == IF isRequeued THEN OrElse(m.iterationCounts, jobId, 0) + 1 ELSE 1
        todo == blockList(gridSize)
        subJobs == [k \in 1..Len(todo) |->
                       [id |-> <<jobId, k>>,
                        board |-> extractBlock(board, todo[k][1], todo[k][2]),
                        blockRow |-> todo[k][1],
                        blockCol |-> todo[k][2],
                        originalBoard |-> board,
                        iteration |-> iteration,
                        isRequeued |-> isRequeued,
                        partialBoard |-> IF isRequeued THEN {board} ELSE {}]]
    IN [m |-> [m EXCEPT !.iterationCounts = Put(@, jobId, iteration),
                        !.jobQueue = @ \o subJobs,
                        !.jobSubJobCount = Put(@, jobId, Len(subJobs))],
        subJobs |-> subJobs]

splitAndQueueJob(m, jobId, board, gridSize, isRequeued) ==
    LET iteration == IF isRequeued THEN OrElse(m.iterationCounts, jobId, 0) + 1 ELSE 1
        todo == SelectSeq(blockList(gridSize),
                          LAMBDA p : ~isBlockSolved(extractBlock(board, p[1], p[2])))
        subJobs == [k \in 1..Len(todo) |->
                       [id |-> <<jobId, k>>,
                        board |-> extractBlock(board, todo[k][1], todo[k][2]),
                        blockRow |-> todo[k][1],
                        blockCol |-> todo[k][2],
                        originalBoard |-> board,
                        iteration |-> iteration,
                        isRequeued |-> isRequeued,
                        partialBoard |-> IF isRequeued THEN {board} ELSE {}]]
    IN [m |-> [m EXCEPT !.iterationCounts = Put(@, jobId, iteration),
                        !.jobQueue = @ \o subJobs,
                        !.jobSubJobCount = Put(@, jobId, Len(subJobs))],
        subJobs |-> subJobs]

\* overlaySure with a guess accepted whenever it fits the board built so far
overlayFitting(updatedBoard, result) ==
    LET n == Size(updatedBoard)
        blockRows == blockRowsOf(n)
        blockCols == blockColsOf(n)
        startRow == result.blockRow * blockRows
        startCol == result.blockCol * blockCols
    IN MkBoard(n, LAMBDA r, c :
           IF /\ r \in startRow..(startRow + blockRows - 1)
              /\ c \in startCol..(startCol + blockCols - 1)
              /\ \/ result.sure[r - startRow][c - startCol]
                 \/ /\ updatedBoard[r][c] = 0
                    /\ isConsistent(updatedBoard, r, c,
                                    result.board[r - startRow][c - startCol])
           THEN result.board[r - startRow][c - startCol]
           ELSE updatedBoard[r][c])

\* the inner loops of updatePartialBoardFromSure for one result
overlaySure(updatedBoard, result) ==
    LET n == Size(updatedBoard)
        blockRows == blockRowsOf(n)
        blockCols == blockColsOf(n)
        startRow == result.blockRow * blockRows
        startCol == result.blockCol * blockCols
    IN MkBoard(n, LAMBDA r, c :
           IF /\ r \in startRow..(startRow + blockRows - 1)
              /\ c \in startCol..(startCol + blockCols - 1)
              /\ result.sure[r - startRow][c - startCol]
           THEN result.board[r - startRow][c - startCol]
           ELSE updatedBoard[r][c])

RECURSIVE overlayResults(_, _, _)
overlayResults(updatedBoard, currentResults, k) ==
    IF k > Len(currentResults) THEN updatedBoard
    ELSE Value(overlaySure(updatedBoard, currentResults[k]),
               LAMBDA overlaid : overlayResults(overlaid, currentResults, k + 1))

\* the board updatePartialBoardFromSure builds from the clues and the results
blueprintFrom(blueprint, currentResults) ==
    Value(overlayResults(blueprint, currentResults, 1), applyNakedSingles)

updatePartialBoardFromSure(m, parentId) ==
    IF ~Has(m.initialBlueprintStore, parentId) THEN m
    ELSE LET blueprint == m.initialBlueprintStore[parentId]
             currentIteration == OrElse(m.iterationCounts, parentId, 1)
         IN Value(currentResultsOf(m, parentId, currentIteration),
                  LAMBDA currentResults :
                      [m EXCEPT !.currentBlueprintStore =
                                    Put(@, parentId, blueprintFrom(blueprint, currentResults))])

\* the part of requeueConflictingBlocks after the blueprint is brought up to
\* date: m1 is the stores at that point
queueConflictingBlocks(m1, parentId, conflictingBlocks, newIteration, t) ==
    [m1 EXCEPT
        !.completedJobs =
            Put(@, parentId,
                SelectSeq(OrEmptyList(m1.completedJobs, parentId),
                    LAMBDA job : ~\E k \in 1..Len(conflictingBlocks) :
                        /\ conflictingBlocks[k][1] = job.blockRow
                        /\ conflictingBlocks[k][2] = job.blockCol)),
        !.iterationCounts = Put(@, parentId, newIteration),
        !.jobSubJobCount = Put(@, parentId, Len(conflictingBlocks)),
        !.jobQueue = @ \o
            [k \in 1..Len(conflictingBlocks) |->
                [id |-> <<parentId, k>>,
                 board |-> extractBlock(m1.currentBlueprintStore[parentId],
                                        conflictingBlocks[k][1], conflictingBlocks[k][2]),
                 blockRow |-> conflictingBlocks[k][1],
                 blockCol |-> conflictingBlocks[k][2],
                 originalBoard |-> m1.currentBlueprintStore[parentId],
                 iteration |-> newIteration,
                 isRequeued |-> TRUE,
                 partialBoard |-> {m1.currentBlueprintStore[parentId]}]],
        !.lastUpdateTimes = Put(@, parentId, t)]

\* requeueConflictingBlocks that stays in the current iteration
requeueInPlace(m, parentId, conflictingBlocks, t) ==
    queueConflictingBlocks(updatePartialBoardFromSure(m, parentId), parentId,
                           conflictingBlocks, OrElse(m.iterationCounts, parentId, 1), t)

requeueConflictingBlocks(m, parentId, conflictingBlocks, t) ==
    queueConflictingBlocks(updatePartialBoardFromSure(m, parentId), parentId,
                           conflictingBlocks, OrElse(m.iterationCounts, parentId, 0) + 1, t)

\* the loop of requeueJobs that splices the job's entries out of the queue
clearPending(queue, parentId) == SelectSeq(queue, LAMBDA job : job.id[1] # parentId)

\* originalSubJobsStore[parentId] = splitAndQueueJob(...), then the timestamp
storeSubJobs(s, parentId, t) ==
    [s.m EXCEPT !.originalSubJobsStore = Put(@, parentId, s.subJobs),
                !.lastUpdateTimes = Put(@, parentId, t)]

\* the part of requeueJobs after the blueprint is brought up to date
requeueFromBlueprint(m1, parentId, t) ==
    storeSubJobs(
        splitAndQueueJob([m1 EXCEPT !.jobQueue = clearPending(@, parentId),
                                    !.completedJobs = Put(@, parentId, <<>>)],
                         parentId, m1.currentBlueprintStore[parentId],
                         Size(m1.currentBlueprintStore[parentId]), TRUE),
        parentId, t)

requeueJobs(m, parentId, t) ==
    requeueFromBlueprint(updatePartialBoardFromSure(m, parentId), parentId, t)

\* the inner loops of combineSections for one result
combineResult(combined, result) ==
    LET n == Size(combined)
        blockRows == blockRowsOf(n)
        blockCols == blockColsOf(n)
        startRow == result.blockRow * blockRows
        startCol == result.blockCol * blockCols
    IN MkBoard(n, LAMBDA r, c :
           IF /\ r \in startRow..(startRow + blockRows - 1)
              /\ c \in startCol..(startCol + blockCols - 1)
              /\ (result.sure[r - startRow][c - startCol] \/ combined[r][c] = 0)
           THEN result.board[r - startRow][c - startCol]
           ELSE combined[r][c])

RECURSIVE combineResults(_, _, _)
combineResults(combined, currentResults, k) ==
    IF k > Len(currentResults) THEN combined
    ELSE combineResults(combineResult(combined, currentResults[k]), currentResults, k + 1)

\* called only for a job whose blueprint is stored, so it never throws
combineSections(m, parentId) ==
    LET blueprint == m.currentBlueprintStore[parentId]
        currentIteration == OrElse(m.iterationCounts, parentId, 0)
    IN combineResults(blueprint, currentResultsOf(m, parentId, currentIteration), 1)

\* one row or column of getConflictingBlocks: the pairs <<seen[value], k>> for
\* which `if (seen[value])` holds; an index 0 stored in seen is falsy
RECURSIVE scanLine(_, _, _, _)
scanLine(line, k, seen, hits) ==
    IF k >= Cardinality(DOMAIN line) THEN hits
    ELSE LET value == line[k]
         IN IF value = 0 THEN scanLine(line, k + 1, seen, hits)
            ELSE IF Has(seen, value) /\ seen[value] # 0
                 THEN scanLine(line, k + 1, seen, Append(hits, <<seen[value], k>>))
                 ELSE scanLine(line, k + 1, Put(seen, value, k), hits)

\* conflictSet.add for each coordinate of coords, keeping insertion order
RECURSIVE addConflicts(_, _, _)
addConflicts(conflictSet, coords, k) ==
    IF k > Len(coords) THEN conflictSet
    ELSE addConflicts(IF coords[k] \in Range(conflictSet) THEN conflictSet
                      ELSE Append(conflictSet, coords[k]),
                      coords, k + 1)

RECURSIVE rowConflicts(_, _, _)
rowConflicts(combinedBoard, i, conflictSet) ==
    LET gridSize == Size(combinedBoard)
        blockRows == blockRowsOf(gridSize)
        blockCols == blockColsOf(gridSize)
        hits == scanLine(combinedBoard[i], 0, EmptyObj, <<>>)
        coords == [k \in 1..(2 * Len(hits)) |->
                      <<i \div blockRows, hits[(k + 1) \div 2][2 - (k % 2)] \div blockCols>>]
    IN IF i >= gridSize THEN conflictSet
       ELSE rowConflicts(combinedBoard, i + 1, addConflicts(conflictSet, coords, 1))

RECURSIVE colConflicts(_, _, _)
colConflicts(combinedBoard, j, conflictSet) ==
    LET gridSize == Size(combinedBoard)
        blockRows == blockRowsOf(gridSize)
        blockCols == blockColsOf(gridSize)
        hits == scanLine([i \in 0..(gridSize - 1) |-> combinedBoard[i][j]], 0, EmptyObj, <<>>)
        coords == [k \in 1..(2 * Len(hits)) |->
                      <<hits[(k + 1) \div 2][2 - (k % 2)] \div blockRows, j \div blockCols>>]
    IN IF j >= gridSize THEN conflictSet
       ELSE colConflicts(combinedBoard, j + 1, addConflicts(conflictSet, coords, 1))

\* the conflicting blocks as <<blockRow, blockCol>>, in the order found
getConflictingBlocks(combinedBoard) ==
    colConflicts(combinedBoard, 0, rowConflicts(combinedBoard, 0, <<>>))

StallMs == 120000

\* the seven deletes that follow a recorded solution
cleanUp(m, jobId) ==
    [m EXCEPT !.originalSubJobsStore = Del(@, jobId),
              !.completedJobs = Del(@, jobId),
              !.currentBlueprintStore = Del(@, jobId),
              !.initialBlueprintStore = Del(@, jobId),
              !.jobStartTimes = Del(@, jobId),
              !.lastUpdateTimes = Del(@, jobId),
              !.iterationCounts = Del(@, jobId)]

\* recordSolution that records nothing
recordNothing(m, jobId, board, t) == m

recordSolution(m, jobId, board, t) ==
    [m EXCEPT !.finalSolvedResults = Put(@, jobId, [board |-> board, timestamp |-> t])]

\* lines 562-574: the combined board is not a solution
requeueAfterConflict(m, jobId, conflictingBlocks, t) ==
    IF Len(conflictingBlocks) > 0
    THEN requeueConflictingBlocks(m, jobId, conflictingBlocks, t)
    ELSE requeueJobs(m, jobId, t)

\* lines 542-578, the blueprint itself not being a solution
combineOrRequeue(m, jobId, combinedBoard, t) ==
    IF isValidSudoku(combinedBoard)
    THEN cleanUp(recordSolution(m, jobId, combinedBoard, t), jobId)
    ELSE requeueAfterConflict(m, jobId, getConflictingBlocks(combinedBoard), t)

\* lines 517-583: m is the stores after the blueprint update of lines 511-514
completeOrRequeue(m, jobId, expected, actual, t) ==
    IF expected > 0 /\ actual >= expected
    THEN IF isFull(m.currentBlueprintStore[jobId])
            /\ isValidSudoku(m.currentBlueprintStore[jobId])
         THEN cleanUp(recordSolution(m, jobId, m.currentBlueprintStore[jobId], t), jobId)
         ELSE combineOrRequeue(m, jobId, combineSections(m, jobId), t)
    ELSE IF expected > 0 /\ t - OrElse(m.lastUpdateTimes, jobId, 0) > StallMs
         THEN requeueJobs(m, jobId, t)
         ELSE m

\* the body of the forEach of checkAndCombineResults for one job
checkJob(m, jobId, t) ==
    LET actual == Len(currentResultsOf(m, jobId, OrElse(m.iterationCounts, jobId, 1)))
    IN completeOrRequeue(IF actual > 0 THEN updatePartialBoardFromSure(m, jobId) ELSE m,
                         jobId, OrElse(m.jobSubJobCount, jobId, 0), actual, t)

\* Object.keys(originalSubJobsStore).forEach, in insertion order: job ids
\* are clock readings, so the order of insertion is the ascending order
RECURSIVE checkJobs(_, _, _)
checkJobs(m, jobIds, t) ==
    IF jobIds = {} THEN m
    ELSE LET jobId == CHOOSE x \in jobIds : \A y \in jobIds : x <= y
         IN checkJobs(checkJob(m, jobId, t), jobIds \ {jobId}, t)

----------------------------------------------------------------------------
(* StochasticSearch master and slaves: the state machine *)

\* what a client was last told: the status and the solvedBoard, if one was sent
NoResponse == [status |-> "none", solvedBoard |-> {}]

Init ==
    /\ now = 0
    /\ jobQueue = <<>>
    /\ completedJobs = EmptyObj
    /\ jobSubJobCount = EmptyObj
    /\ originalSubJobsStore = EmptyObj
    /\ jobStartTimes = EmptyObj
    /\ lastUpdateTimes = EmptyObj
    /\ currentBlueprintStore = EmptyObj
    /\ initialBlueprintStore = EmptyObj
    /\ iterationCounts = EmptyObj
    /\ finalSolvedResults = EmptyObj
    /\ slaves = [w \in Workers |-> {}]
    /\ response = NoResponse
    /\ pendingJobs = <<>>
    /\ currentBlueprints = EmptyObj
    /\ slaveStatus = <<>>
    /\ stopped = {}
    /\ nextSubJobIndex = EmptyObj

\* job ids handed out so far that the stores still know
knownJobs == (DOMAIN jobStartTimes) \cup (DOMAIN finalSolvedResults)

\* the first block of an empty board, pre-solved by /solve (lines 673-692)
preSolved(workingBoard) ==
    IF ~isEmptyBoard(workingBoard) THEN {workingBoard}
    ELSE {applyNakedSingles(
              MkBoard(Size(workingBoard), LAMBDA i, j :
                  IF i < blockRowsOf(Size(workingBoard)) /\ j < blockColsOf(Size(workingBoard))
                  THEN r.block[i][j] ELSE workingBoard[i][j])) :
              r \in StochasticBlockSolver(workingBoard, 0, 0, workingBoard)}

\* POST /solve from line 695 on: the board is split and queued
acceptJob(m, jobId, workingBoard, s, t) ==
    [s.m EXCEPT !.jobSubJobCount = Put(@, jobId, Len(s.subJobs)),
                !.originalSubJobsStore = Put(@, jobId, s.subJobs),
                !.lastUpdateTimes = Put(@, jobId, t)]

\* POST /solve after lines 647-655: m holds the three stores set on entry
solveFrom(m, jobId, propagated, t) ==
    IF isFull(propagated) /\ isValidSudoku(propagated)
    THEN /\ Commit(recordSolution(m, jobId, propagated, t))
         /\ response' = [status |-> "completed",
                         solvedBoard |-> {propagated}]
    ELSE \E workingBoard \in preSolved(propagated) :
            /\ Commit(acceptJob(m, jobId, workingBoard,
                   splitAndQueueJob(
                       [m EXCEPT !.currentBlueprintStore = Put(@, jobId, workingBoard)],
                       jobId, workingBoard, Size(workingBoard), FALSE), t))
            /\ response' = [status |-> "processing",
                            solvedBoard |-> {}]

\* POST /solve
Solve(board) ==
    /\ Cardinality(knownJobs) < MaxJobs
    /\ now \notin knownJobs
    /\ solveFrom([Master EXCEPT !.jobStartTimes = Put(@, now, now),
                                !.initialBlueprintStore = Put(@, now, board),
                                !.iterationCounts = Put(@, now, 1)],
                 now, applyNakedSingles(board), now)
    /\ UNCHANGED <<now, slaves, otherMasters>>

\* shift with the job read from the queue after the head has been removed
shiftThenRead(queue) ==
    [job |-> IF Len(queue) > 1 THEN queue[2] ELSE queue[1], rest |-> Tail(queue)]

\* jobQueue.pop(): the job taken from the end of the queue
pop(queue) == [job |-> queue[Len(queue)], rest |-> SubSeq(queue, 1, Len(queue) - 1)]

\* jobQueue.shift(): the job taken and the queue left
shift(queue) == [job |-> Head(queue), rest |-> Tail(queue)]

\* the job as /queue sends it (lines 724-731)
refreshed(job) ==
    IF job.isRequeued /\ Has(currentBlueprintStore, job.id[1])
    THEN [job EXCEPT !.partialBoard = {currentBlueprintStore[job.id[1]]}]
    ELSE job

\* GET /queue, called by an idle worker that saw totalJobs > 0
Queue(w) ==
    /\ slaves[w] = {}
    /\ jobQueue # <<>>
    /\ jobQueue' = shift(jobQueue).rest
    /\ slaves' = [slaves EXCEPT ![w] = {refreshed(shift(jobQueue).job)}]
    /\ UNCHANGED <<otherMasters,
                   now, completedJobs, jobSubJobCount, originalSubJobsStore, jobStartTimes,
                   lastUpdateTimes, currentBlueprintStore, initialBlueprintStore,
                   iterationCounts, finalSolvedResults, response>>

\* the handler of POST /result for a well-formed request body
postResult(m, body, t) ==
    LET jobId == body.id[1]
    IN Value([m EXCEPT !.completedJobs =
                           Put(@, jobId, Append(OrEmptyList(@, jobId),
                               [id |-> body.id, board |-> body.board,
                                blockRow |-> body.blockRow, blockCol |-> body.blockCol,
                                sure |-> body.sure,
                                iteration |-> IF body.iteration = 0 THEN 1
                                              ELSE body.iteration])),
                       !.lastUpdateTimes = Put(@, jobId, t)],
             LAMBDA m1 : updatePartialBoardFromSure(m1, jobId))

\* a worker finishes solveSubJob: it POSTs its result and is idle again
Result(w) ==
    /\ slaves[w] # {}
    /\ slaves' = [slaves EXCEPT ![w] = {}]
    /\ UNCHANGED <<now, response, otherMasters>>
    /\ \E job \in slaves[w] : \E body \in solveSubJob(job) :
           \E m \in {postResult(Master, body, now)} : Commit(m)

\* the timer callback, every second
withinBounds(m) ==
    \A jobId \in DOMAIN m.iterationCounts : m.iterationCounts[jobId] <= MaxIteration

commitWithinBounds(m) == withinBounds(m) /\ Commit(m)

CheckAndCombineResults ==
    /\ commitWithinBounds(checkJobs(Master, DOMAIN originalSubJobsStore, now))
    /\ UNCHANGED <<now, slaves, response, otherMasters>>

\* GET /FinalsolvedResults?jobId=
FinalsolvedResults(jobId) ==
    /\ IF Has(finalSolvedResults, jobId)
       THEN /\ response' = [status |-> "completed",
                            solvedBoard |-> {finalSolvedResults[jobId].board}]
            /\ UNCHANGED finalSolvedResults
       ELSE IF Has(currentBlueprintStore, jobId) /\ isValidSudoku(currentBlueprintStore[jobId])
       THEN /\ finalSolvedResults' = Put(finalSolvedResults, jobId,
                                         [board |-> currentBlueprintStore[jobId],
                                          timestamp |-> now])
            /\ response' = [status |-> "completed",
                            solvedBoard |-> {currentBlueprintStore[jobId]}]
       ELSE IF Has(currentBlueprintStore, jobId)
       THEN /\ response' = [status |-> "processing",
                            solvedBoard |-> {}]
            /\ UNCHANGED finalSolvedResults
       ELSE /\ response' = [status |-> "error",
                            solvedBoard |-> {}]
            /\ UNCHANGED finalSolvedResults
    /\ UNCHANGED <<otherMasters,
                   now, jobQueue, completedJobs, jobSubJobCount, originalSubJobsStore,
                   jobStartTimes, lastUpdateTimes, currentBlueprintStore,
                   initialBlueprintStore, iterationCounts, slaves>>

\* the clock advances
Tick ==
    /\ now + TickMs <= MaxTicks * TickMs
    /\ now' = now + TickMs
    /\ UNCHANGED <<otherMasters,
                   jobQueue, completedJobs, jobSubJobCount, originalSubJobsStore,
                   jobStartTimes, lastUpdateTimes, currentBlueprintStore,
                   initialBlueprintStore, iterationCounts, finalSolvedResults,
                   slaves, response>>

\* the ids a client can ask about
JobIds == {k * TickMs : k \in 0..MaxTicks}

\* 4x4, one naked single and a rectangle of four cells with two ways to fill
Rectangle == FromRows(<< <<0, 0, 0, 4>>, <<0, 4, 0, 2>>, <<2, 1, 4, 3>>, <<4, 3, 2, 1>> >>)

\* 2x2 with the clue 1 twice in the first row
RepeatedClue == FromRows(<< <<1, 1>>, <<0, 0>> >>)

\* the empty 2x2 board
Empty2 == FromRows(<< <<0, 0>>, <<0, 0>> >>)

\* 2x2 with one clue: the naked singles fill every other cell
Cascade == FromRows(<< <<1, 0>>, <<0, 0>> >>)

Boards == {Rectangle, RepeatedClue, Empty2, Cascade}

Next ==
    \/ \E board \in Boards : Solve(board)
    \/ \E w \in Workers : Queue(w)
    \/ \E w \in Workers : Result(w)
    \/ CheckAndCombineResults
    \/ \E jobId \in JobIds : FinalsolvedResults(jobId)
    \/ Tick

Spec == Init /\ [][Next]_vars

----------------------------------------------------------------------------
(* Properties of the StochasticSearch master *)

\* the job a sub-job or result belongs to: id.split('.')[0]
parentOf(job) == job.id[1]

\* worker w delivers the result of the sub-job it holds in this step
Delivers(w) == slaves[w] # {} /\ slaves'[w] = {}

\* the sub-job held by w was issued in an iteration that is no longer the
\* current iteration of its job
HoldsStale(w) ==
    \E job \in slaves[w] :
        /\ Has(iterationCounts, parentOf(job))
        /\ job.iteration # iterationCounts[parentOf(job)]

\* C2 -- iteration isolation: a POST /result whose iteration differs from the
\* job's current iteration changes no job state: the result is not appended to
\* the completed results, the blueprint is unchanged, and the time of last
\* progress is not refreshed.
IterationIsolation ==
    [][\A w \in Workers :
          (Delivers(w) /\ HoldsStale(w)) =>
              UNCHANGED <<completedJobs, currentBlueprintStore, lastUpdateTimes>>]_vars

\* a worker holds a sub-job of an iteration its job has left behind
StaleResultPending == \E w \in Workers : HoldsStale(w)

Orders(n) == {f \in [1..n -> 1..n] : \A a, b \in 1..n : a # b => f[a] # f[b]}

\* the current-iteration results of a job, as the aggregator selects them
currentResults(jobId) ==
    currentResultsOf(Master, jobId, OrElse(iterationCounts, jobId, 1))

\* C5 -- order independence of aggregation: for every job, submitting the
\* results of its current iteration in any order yields the same
\* currentBlueprint, and that blueprint is the one the master stores once a
\* result of the iteration has arrived.
OrderIndependence ==
    \A jobId \in DOMAIN initialBlueprintStore :
        LET results == currentResults(jobId)
        IN /\ \A f \in Orders(Len(results)) :
                  blueprintFrom(initialBlueprintStore[jobId],
                                [k \in 1..Len(results) |-> results[f[k]]])
                      = blueprintFrom(initialBlueprintStore[jobId], results)
           /\ (Len(results) > 0 /\ Has(currentBlueprintStore, jobId)) =>
                  currentBlueprintStore[jobId]
                      = blueprintFrom(initialBlueprintStore[jobId], results)

\* two results of one iteration, for different blocks, whose guesses put the
\* same value into one row
ConflictingResultsAggregated ==
    \E jobId \in DOMAIN initialBlueprintStore :
        /\ Has(currentBlueprintStore, jobId)
        /\ Len(currentResults(jobId)) = 2
        /\ currentResults(jobId)[1].blockCol # currentResults(jobId)[2].blockCol
        /\ currentResults(jobId)[1].blockRow = currentResults(jobId)[2].blockRow
        /\ currentResults(jobId)[1].board[0][0] = currentResults(jobId)[2].board[0][0]

\* no value occurs twice in a row, a column or a block of the board
noDuplicates(board) ==
    LET n == Size(board)
        idx == 0..(n - 1)
        sameBlock(p, q) == /\ p[1] \div blockRowsOf(n) = q[1] \div blockRowsOf(n)
                           /\ p[2] \div blockColsOf(n) = q[2] \div blockColsOf(n)
    IN \A p, q \in idx \X idx :
           (p # q /\ board[p[1]][p[2]] # 0 /\ board[p[1]][p[2]] = board[q[1]][q[2]]) =>
               ~(p[1] = q[1] \/ p[2] = q[2] \/ sameBlock(p, q))

\* C6 -- no double-fill: in every reachable state no currentBlueprint holds
\* the same non-zero value twice in a row, a column or a block.
NoDoubleFill ==
    \A jobId \in DOMAIN currentBlueprintStore : noDuplicates(currentBlueprintStore[jobId])

\* C7 -- termination on validity: whenever the currentBlueprint of a job in
\* progress is fully populated and well-formed, a run of the periodic check
\* marks the job completed, whatever the number of results still outstanding.
TerminationOnValidity ==
    \A jobId \in DOMAIN originalSubJobsStore :
        (Has(currentBlueprintStore, jobId) /\ isValidSudoku(currentBlueprintStore[jobId])) =>
            Has(checkJobs(Master, DOMAIN originalSubJobsStore, now).finalSolvedResults, jobId)

----------------------------------------------------------------------------
(* The StochasticSearch master on an empty board, whose first block /solve *)
(* fills itself                                                            *)

MaxSeedIteration == 1

\* the empty 3x3 board: the blocks are the three rows
Empty3 == FromRows(<< <<0, 0, 0>>, <<0, 0, 0>>, <<0, 0, 0>> >>)

\* the timer callback, as long as it starts no iteration past MaxSeedIteration
SeedCheckAndCombineResults ==
    /\ CheckAndCombineResults
    /\ \A jobId \in DOMAIN iterationCounts' : iterationCounts'[jobId] <= MaxSeedIteration

NextSeed ==
    \/ Solve(Empty3)
    \/ \E w \in Workers : Queue(w)
    \/ \E w \in Workers : Result(w)
    \/ SeedCheckAndCombineResults
    \/ Tick

SpecSeed == Init /\ [][NextSeed]_vars

\* C4 -- monotone sure within an iteration: in a step that leaves a job's
\* iteration counter as it is, every non-zero cell of the job's
\* currentBlueprint keeps its value.
MonotoneSure ==
    [][\A jobId \in DOMAIN currentBlueprintStore :
          (/\ Has(currentBlueprintStore', jobId)
           /\ Has(iterationCounts, jobId)
           /\ Has(iterationCounts', jobId)
           /\ iterationCounts'[jobId] = iterationCounts[jobId]) =>
              \A i, j \in DOMAIN currentBlueprintStore[jobId] :
                  currentBlueprintStore[jobId][i][j] # 0 =>
                      currentBlueprintStore'[jobId][i][j] = currentBlueprintStore[jobId][i][j]]_vars

----------------------------------------------------------------------------
(* The StochasticSearch master when a POST /result reaches it twice        *)

MaxCompleted == 3

\* POST /result with a body the master has received before
Resubmit(body) ==
    /\ Len(OrEmptyList(completedJobs, parentOf(body))) < MaxCompleted
    /\ Commit(postResult(Master, body, now))
    /\ UNCHANGED <<now, slaves, response, otherMasters>>

NextDup ==
    \/ Solve(Rectangle)
    \/ \E w \in Workers : Queue(w)
    \/ \E w \in Workers : Result(w)
    \/ CheckAndCombineResults
    \/ Tick
    \/ \E jobId \in DOMAIN completedJobs :
           \E k \in 1..Len(completedJobs[jobId]) : Resubmit(completedJobs[jobId][k])

SpecDup == Init /\ [][NextDup]_vars

\* C3 -- duplicate tolerance: when a result R of a job's current iteration
\* that the master already holds is submitted again, the job's completed
\* results, the count of current results that the completion check compares
\* with the expected count, and its currentBlueprint stay as they were after
\* the first submission.
DuplicateTolerance ==
    [][\A jobId \in DOMAIN completedJobs :
          \A k \in 1..Len(completedJobs[jobId]) :
              (/\ Has(iterationCounts, jobId)
               /\ completedJobs[jobId][k].iteration = iterationCounts[jobId]
               /\ Resubmit(completedJobs[jobId][k])) =>
                  /\ Has(completedJobs', jobId)
                  /\ completedJobs'[jobId] = completedJobs[jobId]
                  /\ Len(currentResultsOf([completedJobs |-> completedJobs'], jobId,
                                          iterationCounts[jobId]))
                         = Len(currentResults(jobId))
                  /\ currentBlueprintStore' = currentBlueprintStore]_vars

----------------------------------------------------------------------------
(* The StochasticSearch master with one slave that stays alive; the others  *)
(* may stop anywhere.  fetchAndSolve re-arms its timer after every round,   *)
(* so the live slave asks /queue whenever it is idle and the queue is not   *)
(* empty.  solveSubJob ends with a POST to /result on every path, so the    *)
(* live slave does not hold a sub-job forever: Result is enabled exactly    *)
(* while the slave holds a sub-job and leaves it idle, hence weak fairness  *)
(* of Result is the slave being idle again and again.                       *)

LiveWorker == CHOOSE w \in Workers : TRUE

SpecFair ==
    /\ Init
    /\ [][Next]_vars
    /\ WF_vars(Queue(LiveWorker))
    /\ []<>(slaves[LiveWorker] = {})

\* the queue holds the sub-job with this id issued in this iteration
Queued(queue, id, iteration) ==
    \E k \in 1..Len(queue) : queue[k].id = id /\ queue[k].iteration = iteration

\* the sub-job at place k of the queue is no longer queued after the step
Leaves(k) == ~Queued(jobQueue', jobQueue[k].id, jobQueue[k].iteration)

\* the sub-job at place k is the head and an idle slave receives it
Delivered(k) ==
    /\ k = 1
    /\ \E w \in Workers : slaves[w] = {} /\ slaves'[w] = {refreshed(jobQueue[1])}

\* the job of the sub-job at place k starts its next iteration and none of
\* its sub-jobs of earlier iterations stays queued
Requeued(k) ==
    /\ Has(iterationCounts', parentOf(jobQueue[k]))
    /\ iterationCounts'[parentOf(jobQueue[k])] > jobQueue[k].iteration
    /\ \A i \in 1..Len(jobQueue') :
           parentOf(jobQueue'[i]) = parentOf(jobQueue[k]) =>
               jobQueue'[i].iteration = iterationCounts'[parentOf(jobQueue[k])]

SubJobIds == JobIds \X (1..Size(Rectangle))
Iterations == 1..MaxIteration

----------------------------------------------------------------------------
(* SingleStochasticSearch: the solver a slave runs on a whole board        *)
(* (SudokuSingle/src/SingleStochasticSearch/solver.js).  Math.sqrt(n) is   *)
(* taken for boards whose size is a perfect square.                        *)

isValidPlacement(board, row, col, num) ==
    LET n == Size(board)
        blockSize == FloorSqrt(n)
        br == (row \div blockSize) * blockSize
        bc == (col \div blockSize) * blockSize
    IN /\ \A i \in 0..(n - 1) : board[row][i] # num /\ board[i][col] # num
       /\ \A r, c \in 0..(blockSize - 1) : board[br + r][bc + c] # num

\* one pass of the loops over r and c, in place, from cell k on; a cell that
\* is filled becomes fixed, so the fixed cells are the non-zero cells
RECURSIVE fillSingles(_, _, _)
fillSingles(board, k, changed) ==
    LET n == Size(board)
        r == k \div n
        c == k % n
        candidates == {num \in 1..n : isValidPlacement(board, r, c, num)}
    IN IF k >= n * n THEN [board |-> board, changed |-> changed]
       ELSE IF board[r][c] = 0 /\ Cardinality(candidates) = 1
            THEN Value(SetCell(board, r, c, CHOOSE num \in candidates : TRUE),
                       LAMBDA filled : fillSingles(filled, k + 1, TRUE))
            ELSE fillSingles(board, k + 1, changed)

\* SudokuSolver.applyNakedSingles: while (changed)
RECURSIVE solverApplyNakedSingles(_)
solverApplyNakedSingles(board) ==
    Value(fillSingles(board, 0, FALSE),
          LAMBDA p : IF p.changed THEN solverApplyNakedSingles(p.board) ELSE p.board)

getFixedCells(board) == [r \in DOMAIN board |-> [c \in DOMAIN board[r] |-> board[r][c] # 0]]

\* the cells getAllEmptyCells and findMissingClues choose from
getAllEmptyCells(board) ==
    {cell \in (DOMAIN board) \X (DOMAIN board) : board[cell[1]][cell[2]] = 0}

\* every candidate initializeCandidate can build and the swaps of
\* stochasticSolve can reach: each row holds its fixed cells and, in the
\* other cells, the numbers missing from its fixed cells in some order
RECURSIVE candidateRows(_, _)
candidateRows(board, r) ==
    LET n == Size(board)
        free == {c \in 0..(n - 1) : board[r][c] = 0}
        missing == (1..n) \ {board[r][c] : c \in 0..(n - 1)}
        rowFillings == {f \in [free -> missing] :
                           \A c1, c2 \in free : c1 # c2 => f[c1] # f[c2]}
    IN IF r >= n THEN {board}
       ELSE UNION {candidateRows(filled, r + 1) :
                      filled \in {[board EXCEPT ![r] = [c \in 0..(n - 1) |->
                                      IF board[r][c] # 0 THEN board[r][c] ELSE f[c]]] :
                                     f \in rowFillings}}

candidateBoards(board) == candidateRows(board, 0)

\* SudokuSolver.energy: in every column and every block, the cells whose
\* value was seen before
solverEnergy(board) ==
    LET n == Size(board)
        blockSize == FloorSqrt(n)
        column(c) == {<<r, c>> : r \in 0..(n - 1)}
        block(br, bc) == {<<br * blockSize + r, bc * blockSize + c>> :
                             r \in 0..(blockSize - 1), c \in 0..(blockSize - 1)}
        units == {column(c) : c \in 0..(n - 1)} \cup
                 {block(br, bc) : br \in 0..(blockSize - 1), bc \in 0..(blockSize - 1)}
        seenBefore(unit) ==
            Cardinality({cell \in unit : board[cell[1]][cell[2]] # 0})
            - Cardinality({board[cell[1]][cell[2]] : cell \in unit} \ {0})
        RECURSIVE sum(_)
        sum(us) == IF us = {} THEN 0
                   ELSE LET u == CHOOSE x \in us : TRUE IN seenBefore(u) + sum(us \ {u})
    IN sum(units)

\* what stochasticSolve can return: a candidate of energy 0, and null (no
\* board) when the annealing can end on a candidate of higher energy
stochasticSolve(board) ==
    Value(candidateBoards(board), LAMBDA candidates :
        {{candidate} : candidate \in {b \in candidates : solverEnergy(b) = 0}}
        \cup (IF \E b \in candidates : solverEnergy(b) > 0 THEN {{}} ELSE {}))

\* the isValid of strategicBacktrack
backtrackIsValid(solution, r, c, num) ==
    LET n == Size(solution)
        blockSize == FloorSqrt(n)
        br == (r \div blockSize) * blockSize
        bc == (c \div blockSize) * blockSize
    IN /\ \A x \in 0..(n - 1) : x # c => solution[r][x] # num
       /\ \A x \in 0..(n - 1) : x # r => solution[x][c] # num
       /\ \A x \in br..(br + blockSize - 1) : \A y \in bc..(bc + blockSize - 1) :
              (x # r \/ y # c) => solution[x][y] # num

\* the solve(index) of strategicBacktrack, trying num and the numbers above
\* it for the cell at index: the solution found first, if there is one
RECURSIVE backtrackFrom(_, _, _, _, _)
backtrackFrom(solution, fixedCells, cellsToSolve, index, num) ==
    IF index > Len(cellsToSolve) THEN {solution}
    ELSE LET r == cellsToSolve[index][1]
             c == cellsToSolve[index][2]
         IN IF fixedCells[r][c]
            THEN backtrackFrom(solution, fixedCells, cellsToSolve, index + 1, 1)
            ELSE IF num > Size(solution) THEN {}
            ELSE Value(IF backtrackIsValid(solution, r, c, num)
                       THEN Value(SetCell(solution, r, c, num), LAMBDA placed :
                                backtrackFrom(placed, fixedCells, cellsToSolve, index + 1, 1))
                       ELSE {},
                       LAMBDA found :
                           IF found # {} THEN found
                           ELSE backtrackFrom(solution, fixedCells, cellsToSolve,
                                              index, num + 1))

\* strategicBacktrack: the solution as a set, empty for null
strategicBacktrack(board, fixedCells, cellsToSolve) ==
    backtrackFrom(board, fixedCells, cellsToSolve, 1, 1)

MAX_ATTEMPTS == 50
CLUES_PER_ITERATION == 3

\* sample(array, count): count elements in some order, all of them if fewer
sample(array, count) ==
    LET k == IF Cardinality(array) < count THEN Cardinality(array) ELSE count
    IN {f \in [1..k -> array] : \A a, b \in 1..k : a # b => f[a] # f[b]}

findMissingClues(board) == sample(getAllEmptyCells(board), CLUES_PER_ITERATION)

\* the cells of a set in the order of the loops over r and c
RECURSIVE inScanOrder(_, _)
inScanOrder(cells, n) ==
    IF cells = {} THEN <<>>
    ELSE LET first == CHOOSE x \in cells :
                          \A y \in cells : x[1] * n + x[2] <= y[1] * n + y[2]
         IN <<first>> \o inScanOrder(cells \ {first}, n)

\* what processJob makes of hybridSolve: the board it returns (none for
\* null), or unsolvable when it throws
solvedOutcome(solution) == [unsolvable |-> FALSE, solvedBoard |-> solution]
unsolvableOutcome == [unsolvable |-> TRUE, solvedBoard |-> {}]

\* the statements after the while loop of hybridSolve
finalSolve(board) ==
    solvedOutcome(strategicBacktrack(board, getFixedCells(board),
                                     inScanOrder(getAllEmptyCells(board), Size(board))))

\* neededCells.forEach: the cells take their values of the partial solution
fixCells(board, partialSolution, neededCells) ==
    [r \in DOMAIN board |-> [c \in DOMAIN board[r] |->
        IF \E k \in 1..Len(neededCells) : neededCells[k] = <<r, c>>
        THEN partialSolution[r][c] ELSE board[r][c]]]

\* the while loop of hybridSolve from one attempt on
RECURSIVE hybridAttempts(_, _)
hybridAttempts(board, attempt) ==
    IF attempt >= MAX_ATTEMPTS THEN {finalSolve(board)}
    ELSE Value(stochasticSolve(board), LAMBDA found :
        {solvedOutcome(solution) : solution \in found \ {{}}}
        \cup
        (IF {} \notin found THEN {}
         ELSE UNION {
            IF Len(neededCells) = 0 THEN {finalSolve(board)}
            ELSE Value(strategicBacktrack(board, getFixedCells(board), neededCells),
                       LAMBDA partialSolution :
                           IF partialSolution = {} THEN {unsolvableOutcome}
                           ELSE UNION {hybridAttempts(fixed, attempt + 1) :
                                          fixed \in {fixCells(board, p, neededCells) :
                                                        p \in partialSolution}}) :
            neededCells \in findMissingClues(board)}))

hybridSolve(originalBoard) ==
    Value(solverApplyNakedSingles(originalBoard), LAMBDA board : hybridAttempts(board, 0))

----------------------------------------------------------------------------
(* SingleStochasticSearch: the master                                      *)
(* (SudokuSingle/src/SingleStochasticSearch/master/master.js).             *)
(* pendingJobs and slaveStatus are walked with Object.entries, so they are *)
(* kept as the sequence of their entries in insertion order.  A job id is  *)
(* Date.now() of its /solve; a slaveId is the number of the worker.        *)

keysOf(obj) == {obj[k].key : k \in 1..Len(obj)}

valueOf(obj, key) == obj[CHOOSE k \in 1..Len(obj) : obj[k].key = key].value

\* obj[key] = value
assign(obj, key, value) ==
    IF key \in keysOf(obj)
    THEN [k \in 1..Len(obj) |-> IF obj[k].key = key
                                THEN [key |-> key, value |-> value] ELSE obj[k]]
    ELSE Append(obj, [key |-> key, value |-> value])

\* delete obj[key]
remove(obj, key) == SelectSeq(obj, LAMBDA entry : entry.key # key)

hasDuplicates(arr) ==
    \E a, b \in 1..Len(arr) : a # b /\ arr[a] # 0 /\ arr[a] = arr[b]

isValidGrid(board) ==
    LET n == Size(board)
        blockSize == FloorSqrt(n)
    IN /\ n # 0
       /\ \A row \in 0..(n - 1) : ~hasDuplicates([k \in 1..n |-> board[row][k - 1]])
       /\ \A col \in 0..(n - 1) : ~hasDuplicates([k \in 1..n |-> board[k - 1][col]])
       /\ blockSize * blockSize = n =>
              \A blockRow, blockCol \in 0..(blockSize - 1) :
                  ~hasDuplicates([k \in 1..n |->
                      board[blockRow * blockSize + ((k - 1) \div blockSize)]
                           [blockCol * blockSize + ((k - 1) % blockSize)]])

\* the loops of applyNakedSinglesToBoard are those of the solver's
\* applyNakedSingles, and its isValid is the solver's isValidPlacement
applyNakedSinglesToBoard(board) == solverApplyNakedSingles(board)

HeartbeatMs == 30000
SweepMs == 60000
DeadMs == 90000
MaxBeats == 6
MaxSingleJobs == 1

\* the part of the master's state the sweep works on
SingleMaster == [jobQueue |-> jobQueue, pendingJobs |-> pendingJobs,
                 slaveStatus |-> slaveStatus]

\* the inner loop of the sweep from entry k of Object.entries(pendingJobs)
RECURSIVE requeuePending(_, _, _, _)
requeuePending(m, entries, k, slaveId) ==
    IF k > Len(entries) THEN m
    ELSE requeuePending(
             IF entries[k].value.slaveId = slaveId
             THEN [m EXCEPT !.jobQueue = Append(@, entries[k].value.job),
                            !.pendingJobs = remove(@, entries[k].key)]
             ELSE m,
             entries, k + 1, slaveId)

\* the outer loop of the sweep from entry k of Object.entries(slaveStatus)
RECURSIVE sweepFrom(_, _, _, _)
sweepFrom(m, entries, k, t) ==
    IF k > Len(entries) THEN m
    ELSE sweepFrom(
             IF t - entries[k].value > DeadMs
             THEN Value(requeuePending(m, m.pendingJobs, 1, entries[k].key),
                        LAMBDA requeued :
                            [requeued EXCEPT !.slaveStatus = remove(@, entries[k].key)])
             ELSE m,
             entries, k + 1, t)

\* the callback of setInterval(..., 60000)
sweep(m, t) == sweepFrom(m, m.slaveStatus, 1, t)

\* what the Single master leaves alone: the stores of the other masters
stochasticSearchStores ==
    <<jobSubJobCount, originalSubJobsStore, jobStartTimes, lastUpdateTimes,
      currentBlueprintStore, initialBlueprintStore, iterationCounts,
      finalSolvedResults, nextSubJobIndex>>

\* the handler of POST /solve of the Single master
singleSolve(board) ==
    /\ IF ~isValidGrid(board)
       THEN /\ response' = [status |-> "400", solvedBoard |-> {}, partialBoard |-> {}]
            /\ UNCHANGED <<jobQueue, currentBlueprints>>
       ELSE \E partialBoard \in {applyNakedSinglesToBoard(board)} :
            /\ jobQueue' = Append(jobQueue, [id |-> now, board |-> board])
            /\ currentBlueprints' = Put(currentBlueprints, now, {partialBoard})
            /\ response' = [status |-> "200", solvedBoard |-> {},
                            partialBoard |-> {partialBoard}]
    /\ UNCHANGED <<now, completedJobs, pendingJobs, slaveStatus, slaves, stopped,
                   stochasticSearchStores>>

\* POST /solve of the Single master
SingleSolve(board) ==
    /\ Cardinality(DOMAIN currentBlueprints) < MaxSingleJobs
    /\ now \notin DOMAIN currentBlueprints
    /\ singleSolve(board)

\* GET /queue?slaveId=w by a worker that is between two jobs, and the start
\* of its processJob
SingleQueue(w) ==
    /\ w \notin stopped
    /\ slaves[w] = {}
    /\ jobQueue # <<>>
    /\ jobQueue' = shift(jobQueue).rest
    /\ pendingJobs' = assign(pendingJobs, shift(jobQueue).job.id,
                             [job |-> shift(jobQueue).job, slaveId |-> w,
                              assignedAt |-> now])
    /\ slaves' = [slaves EXCEPT ![w] = {[job |-> shift(jobQueue).job, since |-> now]}]
    /\ UNCHANGED <<now, completedJobs, currentBlueprints, slaveStatus, stopped,
                   response, stochasticSearchStores>>

\* POST /heartbeat: the interval of processJob fires every HeartbeatMs until
\* the result has been posted
SingleHeartbeat(w) ==
    /\ w \notin stopped
    /\ \E held \in slaves[w] : now >= held.since + HeartbeatMs
    /\ slaveStatus' = assign(slaveStatus, w, now)
    /\ UNCHANGED <<now, jobQueue, completedJobs, pendingJobs, currentBlueprints,
                   slaves, stopped, response, stochasticSearchStores>>

\* POST /result of the Single master with what processJob posts for one
\* outcome of hybridSolve: { id, solvedBoard } or { id, unsolvable: true }
singleResult(id, outcome) ==
    /\ pendingJobs' = remove(pendingJobs, id)
    /\ IF outcome.unsolvable
       THEN /\ completedJobs' = Put(completedJobs, id, <<outcome>>)
            /\ currentBlueprints' = Put(currentBlueprints, id, {})
       ELSE /\ completedJobs' =
                  IF \E k \in 1..Len(OrEmptyList(completedJobs, id)) :
                         OrEmptyList(completedJobs, id)[k] = outcome
                  THEN completedJobs
                  ELSE Put(completedJobs, id, Append(OrEmptyList(completedJobs, id), outcome))
            /\ currentBlueprints' = Put(currentBlueprints, id, outcome.solvedBoard)

\* the end of processJob: hybridSolve has returned or thrown, the result is
\* posted and the interval cleared
SingleResult(w) ==
    /\ w \notin stopped
    /\ slaves[w] # {}
    /\ slaves' = [slaves EXCEPT ![w] = {}]
    /\ \E held \in slaves[w] : \E outcome \in hybridSolve(held.job.board) :
           singleResult(held.job.id, outcome)
    /\ UNCHANGED <<now, jobQueue, slaveStatus, stopped, response, stochasticSearchStores>>

\* a worker process stops for good
Stop(w) ==
    /\ w \notin stopped
    /\ stopped' = stopped \cup {w}
    /\ UNCHANGED <<now, jobQueue, completedJobs, pendingJobs, currentBlueprints,
                   slaveStatus, slaves, response, stochasticSearchStores>>

\* the clock advances by one heartbeat period; the sweep runs when its
\* interval has elapsed
SingleTick ==
    /\ now + HeartbeatMs <= MaxBeats * HeartbeatMs
    /\ now' = now + HeartbeatMs
    /\ IF now' % SweepMs = 0
       THEN \E m \in {sweep(SingleMaster, now')} :
                /\ jobQueue' = m.jobQueue
                /\ pendingJobs' = m.pendingJobs
                /\ slaveStatus' = m.slaveStatus
       ELSE UNCHANGED <<jobQueue, pendingJobs, slaveStatus>>
    /\ UNCHANGED <<completedJobs, currentBlueprints, slaves, stopped, response,
                   stochasticSearchStores>>

\* GET /grid/:jobId
SingleGrid(jobId) ==
    /\ response' = IF Has(currentBlueprints, jobId) /\ currentBlueprints[jobId] # {}
                   THEN [status |-> "200", solvedBoard |-> {},
                         partialBoard |-> currentBlueprints[jobId]]
                   ELSE [status |-> "404", solvedBoard |-> {}, partialBoard |-> {}]
    /\ UNCHANGED <<now, jobQueue, completedJobs, pendingJobs, currentBlueprints,
                   slaveStatus, slaves, stopped, stochasticSearchStores>>

\* GET /result/:jobId: the first entry of the job's results, a board or the
\* unsolvable report
SingleGetResult(jobId) ==
    /\ response' = IF Len(OrEmptyList(completedJobs, jobId)) > 0
                   THEN [status |-> "200", solvedBoard |-> {completedJobs[jobId][1]},
                         partialBoard |-> {}]
                   ELSE [status |-> "404", solvedBoard |-> {}, partialBoard |-> {}]
    /\ UNCHANGED <<now, jobQueue, completedJobs, pendingJobs, currentBlueprints,
                   slaveStatus, slaves, stopped, stochasticSearchStores>>

\* 4x4, valid as a grid, with no solution: after the naked singles the last
\* cell of the first row has no candidate
NoSolution == FromRows(<< <<1, 2, 3, 0>>, <<0, 0, 0, 4>>, <<2, 1, 4, 3>>, <<3, 4, 2, 1>> >>)

SingleBoards == {Rectangle, NoSolution, RepeatedClue}

SingleJobIds == {k * HeartbeatMs : k \in 0..MaxBeats}

NextSingle ==
    \/ \E board \in SingleBoards : SingleSolve(board)
    \/ \E w \in Workers : SingleQueue(w)
    \/ \E w \in Workers : SingleHeartbeat(w)
    \/ \E w \in Workers : SingleResult(w)
    \/ \E w \in Workers : Stop(w)
    \/ SingleTick
    \/ \E jobId \in SingleJobIds : SingleGrid(jobId)
    \/ \E jobId \in SingleJobIds : SingleGetResult(jobId)

SpecSingle == Init /\ [][NextSingle]_vars

----------------------------------------------------------------------------
(* Dead-worker recovery *)

\* the last sign of life the master has of a worker that holds a pending job
lastSeen(pending) ==
    IF pending.slaveId \in keysOf(slaveStatus)
       /\ valueOf(slaveStatus, pending.slaveId) > pending.assignedAt
    THEN valueOf(slaveStatus, pending.slaveId)
    ELSE pending.assignedAt

\* C9: a job pulled by a worker that then stopped for good is put back on
\* the job queue by the sweep, and the worker is forgotten, also when no
\* heartbeat of the worker was ever received: no job stays assigned to a
\* stopped worker, and no stopped worker stays in the worker table, for
\* longer than DeadMs + SweepMs after the worker's last sign of life
DeadWorkerRecovery ==
    /\ \A k \in 1..Len(pendingJobs) :
           pendingJobs[k].value.slaveId \in stopped =>
               now - lastSeen(pendingJobs[k].value) <= DeadMs + SweepMs
    /\ \A k \in 1..Len(slaveStatus) :
           slaveStatus[k].key \in stopped =>
               now - slaveStatus[k].value <= DeadMs + SweepMs

----------------------------------------------------------------------------
(* Conflict localisation *)

\* the cells of a board that repeat a non-zero value of their row or column
duplicated(board) ==
    LET n == Size(board)
    IN {cell \in (0..(n - 1)) \X (0..(n - 1)) :
           /\ board[cell[1]][cell[2]] # 0
           /\ \E k \in 0..(n - 1) :
                  \/ k # cell[2] /\ board[cell[1]][k] = board[cell[1]][cell[2]]
                  \/ k # cell[1] /\ board[k][cell[2]] = board[cell[1]][cell[2]]}

\* the blocks that enclose a duplicated cell
enclosingBlocks(board) ==
    {<<cell[1] \div blockRowsOf(Size(board)), cell[2] \div blockColsOf(Size(board))>> :
        cell \in duplicated(board)}

\* C15: getConflictingBlocks returns exactly the blocks that contain a cell
\* of a duplicated non-zero value in a row or column, wherever the first
\* occurrence lies, for every board the master combines from the results of
\* a puzzle whose clues repeat no value
ConflictLocalisation ==
    \A jobId \in DOMAIN currentBlueprintStore :
        noDuplicates(initialBlueprintStore[jobId]) =>
            \A combinedBoard \in {combineSections(Master, jobId)} :
                Range(getConflictingBlocks(combinedBoard)) = enclosingBlocks(combinedBoard)

----------------------------------------------------------------------------
(* Stall detection *)

\* this step takes the job to its next iteration while results of its
\* current iteration are outstanding: the requeue of the stall detection
StallRequeue(jobId) ==
    /\ Has(iterationCounts, jobId)
    /\ Has(iterationCounts', jobId)
    /\ iterationCounts'[jobId] > iterationCounts[jobId]
    /\ Len(currentResults(jobId)) < OrElse(jobSubJobCount, jobId, 0)

\* C16: the stall detection requeues a job only when there was no progress
\* for longer than the stall threshold, sub-jobs of the current iteration
\* are outstanding, and no sub-job of the job waits in the job queue
StallOnlyWhenQueueEmpty ==
    [][\A jobId \in JobIds :
          StallRequeue(jobId) =>
              /\ now - OrElse(lastUpdateTimes, jobId, 0) > StallMs
              /\ \A k \in 1..Len(jobQueue) : parentOf(jobQueue[k]) # jobId]_vars

----------------------------------------------------------------------------
(* The StochasticSearch master left alone: no worker is running, so no     *)
(* result arrives and no job gains a sure cell                             *)

MaxStallTicks == 34
AbandonAfter == 10

StallTick ==
    /\ now + TickMs <= MaxStallTicks * TickMs
    /\ now' = now + TickMs
    /\ UNCHANGED <<otherMasters,
                   jobQueue, completedJobs, jobSubJobCount, originalSubJobsStore,
                   jobStartTimes, lastUpdateTimes, currentBlueprintStore,
                   initialBlueprintStore, iterationCounts, finalSolvedResults,
                   slaves, response>>

\* the timer callback, followed for two rounds past AbandonAfter
StallCheck ==
    /\ Commit(checkJobs(Master, DOMAIN originalSubJobsStore, now))
    /\ \A jobId \in DOMAIN iterationCounts' :
           iterationCounts'[jobId] <= AbandonAfter + 2
    /\ UNCHANGED <<now, slaves, response, otherMasters>>

NextStall ==
    \/ \E board \in Boards : Solve(board)
    \/ StallTick
    \/ StallCheck

SpecStall == Init /\ [][NextStall]_vars

\* C17: a job that has gone through AbandonAfter requeue rounds without a
\* new sure cell is marked abandoned instead of being requeued again: with
\* no result ever arriving, no job is taken past iteration AbandonAfter + 1
AbandonedNotRequeued ==
    \A jobId \in DOMAIN iterationCounts : iterationCounts[jobId] <= AbandonAfter + 1

----------------------------------------------------------------------------
(* Reports of unsolvable work *)

\* C18: when a worker reports a job as unsolvable the master discards the
\* report's payload, and no client query returns the unsolvable marker as a
\* solved board: the marker is never stored among a job's results and never
\* sent as solvedBoard
UnsolvableDiscarded ==
    /\ \A id \in DOMAIN completedJobs :
           \A k \in 1..Len(completedJobs[id]) : ~completedJobs[id][k].unsolvable
    /\ \A entry \in response.solvedBoard : ~entry.unsolvable

----------------------------------------------------------------------------
(* Intake *)

\* C19: POST /solve with a board whose clues repeat a non-zero value in a
\* row, column or block creates no job: no per-job record holds such a board
IntakeValidation ==
    \A jobId \in DOMAIN initialBlueprintStore : noDuplicates(initialBlueprintStore[jobId])

\* the job was submitted with a board that propagation alone completes into
\* a valid solution
solvedAtIntake(store, jobId) ==
    /\ Has(store, jobId)
    /\ isFull(applyNakedSingles(store[jobId]))
    /\ isValidSudoku(applyNakedSingles(store[jobId]))

\* C20: when propagation alone completes the submitted board into a valid
\* solution, POST /solve answers 'completed' with that board and enqueues no
\* sub-job, and a later FinalsolvedResults query for the job answers
\* 'completed' with the same board
CompletedAtIntake ==
    [][\A jobId \in JobIds :
          /\ (~Has(initialBlueprintStore, jobId) /\ solvedAtIntake(initialBlueprintStore', jobId)) =>
                 /\ response' = [status |-> "completed",
                                 solvedBoard |-> {applyNakedSingles(initialBlueprintStore'[jobId])}]
                 /\ jobQueue' = jobQueue
                 /\ Has(finalSolvedResults', jobId)
          /\ (solvedAtIntake(initialBlueprintStore, jobId) /\ FinalsolvedResults(jobId)) =>
                 response' = [status |-> "completed",
                              solvedBoard |-> {applyNakedSingles(initialBlueprintStore[jobId])}]]_vars

\* a job completed by POST /solve, asked about at a later time
IntakeSolutionKept ==
    \E jobId \in DOMAIN finalSolvedResults :
        /\ solvedAtIntake(initialBlueprintStore, jobId)
        /\ now > jobId
        /\ response = [status |-> "completed",
                       solvedBoard |-> {finalSolvedResults[jobId].board}]

----------------------------------------------------------------------------
(* The selective requeue of the StochasticSearch master *)

\* 4x4: the naked single (0,0) and a rectangle of four cells in columns 1
\* and 3, so that a repeated value in a row has its first occurrence at index 1
Offset == FromRows(<< <<0, 0, 3, 0>>, <<3, 0, 1, 0>>, <<2, 1, 4, 3>>, <<4, 3, 2, 1>> >>)

NextConflict ==
    \/ Solve(Offset)
    \/ \E w \in Workers : Queue(w)
    \/ \E w \in Workers : Result(w)
    \/ CheckAndCombineResults
    \/ Tick

SpecConflict == Init /\ [][NextConflict]_vars

\* the conflict list the periodic check is about to hand to
\* requeueConflictingBlocks for jobId, and the empty list when it takes
\* another path (lines 506-566)
conflictsDue(jobId) ==
    LET actual == Len(currentResults(jobId))
        expected == OrElse(jobSubJobCount, jobId, 0)
        m == IF actual > 0 THEN updatePartialBoardFromSure(Master, jobId) ELSE Master
    IN IF /\ expected > 0
          /\ actual >= expected
          /\ ~(isFull(m.currentBlueprintStore[jobId])
                 /\ isValidSudoku(m.currentBlueprintStore[jobId]))
          /\ ~isValidSudoku(combineSections(m, jobId))
       THEN getConflictingBlocks(combineSections(m, jobId))
       ELSE <<>>

\* the cells of the block <<blockRow, blockCol>> of a board of size n
cellsOfBlock(n, block) ==
    {<<block[1] * blockRowsOf(n) + i, block[2] * blockColsOf(n) + j>> :
        i \in 0..(blockRowsOf(n) - 1), j \in 0..(blockColsOf(n) - 1)}

\* C13: after a selective requeue every cell of the current blueprint that
\* lies in a conflicting block and is not a clue of the initial blueprint is
\* zero, and each requeued sub-job carries that blueprint and its block of it
ClearedOnSelectiveRequeue ==
    [][\A jobId \in DOMAIN originalSubJobsStore :
          (conflictsDue(jobId) # <<>> /\ CheckAndCombineResults) =>
              LET conflicts == conflictsDue(jobId)
                  blueprint == currentBlueprintStore'[jobId]
                  requeued == SelectSeq(jobQueue', LAMBDA job :
                                  parentOf(job) = jobId
                                      /\ job.iteration = iterationCounts'[jobId])
              IN /\ \A k \in DOMAIN conflicts :
                        \A cell \in cellsOfBlock(Size(blueprint), conflicts[k]) :
                            initialBlueprintStore[jobId][cell[1]][cell[2]] = 0
                                => blueprint[cell[1]][cell[2]] = 0
                 /\ \A k \in DOMAIN requeued :
                        /\ requeued[k].originalBoard = blueprint
                        /\ requeued[k].board =
                               extractBlock(blueprint, requeued[k].blockRow,
                                            requeued[k].blockCol)
      ]_vars

----------------------------------------------------------------------------
(* ColumnBasedSolver: the column solver of ColumnBasedSolver/solver.js.    *)
(* A column, an array of one-element arrays in the code, is a function     *)
(* from the row index to the value.                                        *)

\* board.map(row => [row[col]])
extractColumn(board, col) == [row \in 0..(Size(board) - 1) |-> board[row][col]]

getFullBoardWithColumn(column, originalBoard, colIndex) ==
    MkBoard(Size(originalBoard), LAMBDA row, c :
        IF c = colIndex THEN column[row] ELSE originalBoard[row][c])

isValidInColumn(column, originalBoard, colIndex, row, value) ==
    LET n == Size(originalBoard)
        fullBoard == SetCell(getFullBoardWithColumn(column, originalBoard, colIndex),
                             row, colIndex, value)
        blockRows == blockRowsOf(n)
        blockCols == blockColsOf(n)
        blockRowStart == (row \div blockRows) * blockRows
        blockColStart == (colIndex \div blockCols) * blockCols
    IN /\ \A i \in DOMAIN column : i # row => column[i] # value
       /\ \A c \in 0..(n - 1) : c # colIndex => fullBoard[row][c] # value
       /\ \A r \in 0..(blockRows - 1) : \A c \in 0..(blockCols - 1) :
              (blockColStart + c # colIndex \/ blockRowStart + r # row)
                  => fullBoard[blockRowStart + r][blockColStart + c] # value

columnCandidates(column, originalBoard, colIndex, row) ==
    {value \in 1..Size(originalBoard) :
        isValidInColumn(column, originalBoard, colIndex, row, value)}

\* one pass of the for loop of applyNakedSinglesForColumn, from row on
RECURSIVE columnSinglesPass(_, _, _, _, _)
columnSinglesPass(column, originalBoard, colIndex, row, changed) ==
    IF row >= Size(originalBoard) THEN [column |-> column, changed |-> changed]
    ELSE IF column[row] = 0
              /\ Cardinality(columnCandidates(column, originalBoard, colIndex, row)) = 1
         THEN columnSinglesPass(
                  [column EXCEPT ![row] =
                      CHOOSE value \in columnCandidates(column, originalBoard, colIndex, row) : TRUE],
                  originalBoard, colIndex, row + 1, TRUE)
         ELSE columnSinglesPass(column, originalBoard, colIndex, row + 1, changed)

\* the while (changed) loop; the last pass marks every non-zero cell as sure
RECURSIVE applyNakedSinglesForColumn(_, _, _)
applyNakedSinglesForColumn(column, originalBoard, colIndex) ==
    LET pass == columnSinglesPass(column, originalBoard, colIndex, 0, FALSE)
    IN IF pass.changed
       THEN applyNakedSinglesForColumn(pass.column, originalBoard, colIndex)
       ELSE [column |-> pass.column,
             sureMask |-> [row \in DOMAIN column |-> pass.column[row] # 0]]

\* the ways to fill emptyPositions of column so that every filled cell is valid
columnFillings(column, originalBoard, colIndex, emptyPositions) ==
    {filled \in {[row \in DOMAIN column |->
                     IF row \in emptyPositions THEN f[row] ELSE column[row]] :
                  f \in [emptyPositions -> 1..Size(originalBoard)]} :
        \A row \in emptyPositions :
            isValidInColumn(filled, originalBoard, colIndex, row, filled[row])}

\* c1 comes before c2 in the order backtrackColumn tries the fillings
triedBefore(c1, c2) ==
    \E row \in DOMAIN c1 :
        /\ c1[row] < c2[row]
        /\ \A r \in DOMAIN c1 : r < row => c1[r] = c2[r]

MaxFillings == 2

\* stochasticBacktrackColumn: the shuffled candidate orders reach any filling;
\* the model follows the first MaxFillings of them in ascending order
stochasticBacktrackColumn(column, originalBoard, colIndex, emptyPositions) ==
    LET fillings == columnFillings(column, originalBoard, colIndex, emptyPositions)
    IN {c \in fillings :
           Cardinality({d \in fillings : triedBefore(d, c)}) < MaxFillings}

\* backtrackColumn: the first filling in ascending order of the candidates
backtrackColumn(column, originalBoard, colIndex, emptyPositions) ==
    LET fillings == columnFillings(column, originalBoard, colIndex, emptyPositions)
    IN {c \in fillings : \A d \in fillings : d = c \/ triedBefore(c, d)}

\* SudokuSolver.hybridSolve: the results it can return; none when it throws
columnHybridSolve(column, originalBoard, colIndex) ==
    LET propagated == applyNakedSinglesForColumn(column, originalBoard, colIndex)
        constraintColumn == propagated.column
        emptyPositions == {row \in DOMAIN column : constraintColumn[row] = 0}
        stochastic == stochasticBacktrackColumn(constraintColumn, originalBoard,
                                                colIndex, emptyPositions)
    IN IF emptyPositions = {}
       THEN {[column |-> constraintColumn, sure |-> propagated.sureMask]}
       ELSE IF stochastic # {}
       THEN {[column |-> c, sure |-> propagated.sureMask] : c \in stochastic}
       ELSE {[column |-> c, sure |-> [row \in DOMAIN column |-> FALSE]] :
                c \in backtrackColumn(column, originalBoard, colIndex, emptyPositions)}

----------------------------------------------------------------------------
(* ColumnBasedSolver master: the functions of                              *)
(* ColumnBasedSolver/master/master.js on a record m of the master's stores *)
(* A sub-job carries two flags for the objects it shares with the master:  *)
(* shared, when its originalBoard is the array currentBlueprintStore       *)
(* holds, and stored, when the sub-job is an element of                    *)
(* originalSubJobsStore.                                                   *)

ColumnMaster ==
    [jobQueue |-> jobQueue, completedJobs |-> completedJobs,
     originalSubJobsStore |-> originalSubJobsStore,
     currentBlueprintStore |-> currentBlueprintStore,
     jobStartTimes |-> jobStartTimes, lastUpdateTimes |-> lastUpdateTimes,
     finalSolvedResults |-> finalSolvedResults,
     nextSubJobIndex |-> nextSubJobIndex]

ColumnCommit(m) ==
    /\ jobQueue' = m.jobQueue
    /\ completedJobs' = m.completedJobs
    /\ originalSubJobsStore' = m.originalSubJobsStore
    /\ currentBlueprintStore' = m.currentBlueprintStore
    /\ jobStartTimes' = m.jobStartTimes
    /\ lastUpdateTimes' = m.lastUpdateTimes
    /\ finalSolvedResults' = m.finalSolvedResults
    /\ nextSubJobIndex' = m.nextSubJobIndex

\* F applied to every sub-job object of jobId the master can still reach
eachSubJob(m, jobId, F(_)) ==
    [m EXCEPT !.jobQueue =
                  [k \in DOMAIN @ |-> IF @[k].id[1] = jobId THEN F(@[k]) ELSE @[k]],
              !.originalSubJobsStore =
                  IF Has(@, jobId)
                  THEN Put(@, jobId, [k \in DOMAIN @[jobId] |-> F(@[jobId][k])])
                  ELSE @]

\* currentBlueprintStore[jobId] = board, a new array: no sub-job shares it
replaceBlueprint(m, jobId, board) ==
    eachSubJob([m EXCEPT !.currentBlueprintStore = Put(@, jobId, board)], jobId,
               LAMBDA job : [job EXCEPT !.shared = FALSE])

\* the array currentBlueprintStore[jobId] changed in place: the sub-jobs
\* that share it see the change
writeBlueprint(m, jobId, board) ==
    eachSubJob([m EXCEPT !.currentBlueprintStore = Put(@, jobId, board)], jobId,
               LAMBDA job : IF job.shared THEN [job EXCEPT !.originalBoard = board]
                            ELSE job)

isColumnValid(column, fullSize) ==
    /\ \A row \in DOMAIN column : column[row] # 0
    /\ {column[row] : row \in DOMAIN column} = 1..fullSize

\* combineSections: the combined board, or none when it throws
RECURSIVE columnCombine(_, _, _)
columnCombine(combinedBoard, results, k) ==
    IF k > Len(results) THEN {combinedBoard}
    ELSE IF ~isColumnValid(results[k].board, Size(combinedBoard)) THEN {}
    ELSE columnCombine(
             MkBoard(Size(combinedBoard), LAMBDA row, c :
                 IF c = results[k].colIndex THEN results[k].board[row]
                 ELSE combinedBoard[row][c]),
             results, k + 1)

columnCombineSections(m, jobId) ==
    columnCombine(m.currentBlueprintStore[jobId], OrEmptyList(m.completedJobs, jobId), 1)

\* Number.isInteger(Math.sqrt(n))
isPerfectSquare(n) == FloorSqrt(n) * FloorSqrt(n) = n

\* isValidSudoku of the Column master, for a board whose size is a perfect square
columnIsValidSudoku(board) ==
    LET n == Size(board)
        root == FloorSqrt(n)
        cells == 0..(n - 1)
    IN /\ \A i \in cells : \A j \in cells : board[i][j] # 0
       /\ \A i \in cells : \A j, k \in cells :
              j # k => board[i][j] # board[i][k] /\ board[j][i] # board[k][i]
       /\ \A bi, bj \in 0..(root - 1) :
              \A r1, r2 \in 0..(root - 1) : \A c1, c2 \in 0..(root - 1) :
                  <<r1, c1>> # <<r2, c2>> =>
                      board[bi * root + r1][bj * root + c1]
                          # board[bi * root + r2][bj * root + c2]

\* the columns that are not a full permutation, in ascending order
getConflictingColumns(combinedBoard) ==
    LET gridSize == Size(combinedBoard)
        conflicting(col) == ~isColumnValid(extractColumn(combinedBoard, col), gridSize)
    IN SelectSeq([k \in 1..gridSize |-> k - 1], conflicting)

\* splitAndQueueJob: one sub-job per column; the stores left and the sub-jobs made
columnSubJob(jobId, board, col, index, isRequeued, stored) ==
    [id |-> <<jobId, index>>, board |-> extractColumn(board, col), colIndex |-> col,
     originalBoard |-> board, shared |-> TRUE, stored |-> stored,
     isRequeued |-> isRequeued,
     partialBoard |-> IF isRequeued THEN {board} ELSE {}]

columnSplitAndQueueJob(m, jobId, board, gridSize, isRequeued) ==
    LET subJobs == [k \in 1..gridSize |->
                       columnSubJob(jobId, board, k - 1, k, isRequeued, TRUE)]
    IN [m |-> [m EXCEPT !.nextSubJobIndex = Put(@, jobId, gridSize + 1),
                        !.jobQueue = @ \o subJobs],
        subJobs |-> subJobs]

\* the body of the forEach of requeueConflictingColumns, from the k-th conflict on
RECURSIVE requeueColumnsFrom(_, _, _, _)
requeueColumnsFrom(m, jobId, conflictingColumns, k) ==
    IF k > Len(conflictingColumns) THEN m
    ELSE LET col == conflictingColumns[k]
             board == [row \in DOMAIN m.currentBlueprintStore[jobId] |->
                          [m.currentBlueprintStore[jobId][row] EXCEPT ![col] = 0]]
             m1 == writeBlueprint(m, jobId, board)
             index == OrElse(m1.nextSubJobIndex, jobId,
                             Len(m1.originalSubJobsStore[jobId]) + 1)
         IN requeueColumnsFrom(
                [m1 EXCEPT !.completedJobs =
                               IF Has(@, jobId)
                               THEN Put(@, jobId, SelectSeq(@[jobId],
                                        LAMBDA job : job.colIndex # col))
                               ELSE @,
                           !.nextSubJobIndex = Put(@, jobId, index + 1),
                           !.jobQueue = Append(@,
                               columnSubJob(jobId, board, col, index, TRUE, FALSE))],
                jobId, conflictingColumns, k + 1)

requeueConflictingColumns(m, jobId, conflictingColumns) ==
    [requeueColumnsFrom(m, jobId, conflictingColumns, 1)
        EXCEPT !.completedJobs = Put(@, jobId, <<>>)]

\* updatedBoard with the column of one result: the sure cells, 0 elsewhere
columnOverlaySure(updatedBoard, result) ==
    MkBoard(Size(updatedBoard), LAMBDA row, c :
        IF c # result.colIndex THEN updatedBoard[row][c]
        ELSE IF result.sure[row] THEN result.board[row] ELSE 0)

RECURSIVE columnOverlayResults(_, _, _)
columnOverlayResults(updatedBoard, results, k) ==
    IF k > Len(results) THEN updatedBoard
    ELSE columnOverlayResults(columnOverlaySure(updatedBoard, results[k]), results, k + 1)

columnUpdatePartialBoardFromSure(m, jobId) ==
    IF OrEmptyList(m.originalSubJobsStore, jobId) = <<>> THEN m
    ELSE LET updatedBoard == columnOverlayResults(m.currentBlueprintStore[jobId],
                                 OrEmptyList(m.completedJobs, jobId), 1)
         IN eachSubJob(replaceBlueprint(m, jobId, updatedBoard), jobId,
                LAMBDA job : IF job.stored
                             THEN [job EXCEPT !.partialBoard = {updatedBoard},
                                              !.isRequeued = TRUE]
                             ELSE job)

\* updatedBoard with the sure cells of one result; the other cells stay
columnKeepSure(updatedBoard, result) ==
    MkBoard(Size(updatedBoard), LAMBDA row, c :
        IF c = result.colIndex /\ result.sure[row] THEN result.board[row]
        ELSE updatedBoard[row][c])

RECURSIVE columnKeepResults(_, _, _)
columnKeepResults(updatedBoard, results, k) ==
    IF k > Len(results) THEN updatedBoard
    ELSE columnKeepResults(columnKeepSure(updatedBoard, results[k]), results, k + 1)

columnRequeueJobs(m, jobId, t) ==
    LET gridSize == Size(m.currentBlueprintStore[jobId])
        updatedBoard == columnKeepResults(MkBoard(gridSize, LAMBDA row, c : 0),
                                          OrEmptyList(m.completedJobs, jobId), 1)
        m1 == eachSubJob(replaceBlueprint(m, jobId, updatedBoard), jobId,
                         LAMBDA job : [job EXCEPT !.stored = FALSE])
        s == columnSplitAndQueueJob(m1, jobId, updatedBoard, gridSize, TRUE)
    IN [s.m EXCEPT !.originalSubJobsStore = Put(@, jobId, s.subJobs),
                   !.completedJobs = Put(@, jobId, <<>>),
                   !.lastUpdateTimes = Put(@, jobId, t)]

ColumnStallMs == 60000

columnCleanUp(m, jobId) ==
    [m EXCEPT !.originalSubJobsStore = Del(@, jobId),
              !.completedJobs = Del(@, jobId),
              !.currentBlueprintStore = Del(@, jobId),
              !.jobStartTimes = Del(@, jobId),
              !.lastUpdateTimes = Del(@, jobId),
              !.nextSubJobIndex = Del(@, jobId)]

\* the try block of checkAndCombineResults once combineSections has returned
columnCombineOrRequeue(m, jobId, combinedBoard, t) ==
    IF ~isPerfectSquare(Size(combinedBoard)) THEN columnRequeueJobs(m, jobId, t)
    ELSE IF columnIsValidSudoku(combinedBoard)
    THEN columnCleanUp([m EXCEPT !.finalSolvedResults =
                                     Put(@, jobId, [board |-> combinedBoard,
                                                    timestamp |-> t])], jobId)
    ELSE IF getConflictingColumns(combinedBoard) # <<>>
    THEN requeueConflictingColumns(m, jobId, getConflictingColumns(combinedBoard))
    ELSE columnRequeueJobs(m, jobId, t)

\* the body of the forEach of checkAndCombineResults
columnCheckJob(m, jobId, t) ==
    LET expected == Len(OrEmptyList(m.originalSubJobsStore, jobId))
        actual == Len(OrEmptyList(m.completedJobs, jobId))
    IN IF actual = expected
       THEN IF columnCombineSections(m, jobId) = {} THEN columnRequeueJobs(m, jobId, t)
            ELSE columnCombineOrRequeue(m, jobId,
                     CHOOSE b \in columnCombineSections(m, jobId) : TRUE, t)
       ELSE IF actual > 0
       THEN Value(columnUpdatePartialBoardFromSure(m, jobId), LAMBDA m1 :
                IF t - OrElse(m1.lastUpdateTimes, jobId, 0) > ColumnStallMs
                THEN columnRequeueJobs(m1, jobId, t) ELSE m1)
       ELSE m

RECURSIVE columnCheckJobs(_, _, _)
columnCheckJobs(m, jobIds, t) ==
    IF jobIds = {} THEN m
    ELSE LET jobId == CHOOSE j \in jobIds : \A other \in jobIds : j <= other
         IN columnCheckJobs(columnCheckJob(m, jobId, t), jobIds \ {jobId}, t)

----------------------------------------------------------------------------
(* ColumnBasedSolver master and slave: the handlers                        *)

MaxColumnJobs == 1
NumColumnWorkers == 1

ColumnWorkers == 1..NumColumnWorkers

\* the stores the ColumnBasedSolver master does not have
notInColumnMaster == <<jobSubJobCount, iterationCounts,
                       pendingJobs, currentBlueprints, slaveStatus, stopped>>

\* the pre-solved first column of an empty board (lines 240-254): the board
\* with the column written into it and the result pushed to completedJobs
columnPreSolved(board, jobId) ==
    IF ~isEmptyBoard(board) THEN {[board |-> board, results |-> {}]}
    ELSE {[board |-> getFullBoardWithColumn(result.column, board, 0),
           results |-> {[id |-> <<jobId, 1>>, board |-> result.column, colIndex |-> 0,
                         sure |-> [row \in DOMAIN result.sure |-> TRUE]]}] :
             result \in columnHybridSolve(extractColumn(board, 0), board, 0)}

\* POST /solve.  The master keeps no copy of the board as submitted;
\* initialBlueprintStore records it here for the properties to refer to.
ColumnSolve(board) ==
    /\ Cardinality(knownJobs) < MaxColumnJobs
    /\ now \notin knownJobs
    /\ \E pre \in columnPreSolved(board, now) :
          LET jobId == now
              m0 == [ColumnMaster EXCEPT
                        !.jobStartTimes = Put(@, jobId, now),
                        !.completedJobs =
                            IF pre.results = {} THEN @
                            ELSE Put(@, jobId, <<CHOOSE r \in pre.results : TRUE>>),
                        !.currentBlueprintStore = Put(@, jobId, pre.board)]
              s == columnSplitAndQueueJob(m0, jobId, pre.board, Size(board), FALSE)
          IN ColumnCommit([s.m EXCEPT
                              !.originalSubJobsStore = Put(@, jobId, s.subJobs),
                              !.lastUpdateTimes = Put(@, jobId, now)])
    /\ initialBlueprintStore' = Put(initialBlueprintStore, now, board)
    /\ response' = [status |-> "processing", solvedBoard |-> {}]
    /\ UNCHANGED <<now, slaves, notInColumnMaster>>

\* GET /queue, called by an idle worker that saw totalJobs > 0.  For a
\* requeued sub-job of a job whose blueprint is gone the handler throws
\* after the shift: the sub-job is lost and the worker gets no job.
ColumnQueue(w) ==
    /\ slaves[w] = {}
    /\ jobQueue # <<>>
    /\ jobQueue' = Tail(jobQueue)
    /\ LET job == Head(jobQueue)
       IN slaves' = [slaves EXCEPT ![w] =
              IF ~job.isRequeued THEN {job}
              ELSE IF Has(currentBlueprintStore, job.id[1])
              THEN {[job EXCEPT !.partialBoard = {currentBlueprintStore[job.id[1]]}]}
              ELSE {}]
    /\ UNCHANGED <<now, completedJobs, originalSubJobsStore, currentBlueprintStore,
                   jobStartTimes, lastUpdateTimes, finalSolvedResults, nextSubJobIndex,
                   initialBlueprintStore, response, notInColumnMaster>>

\* the handler of POST /result
columnPostResult(m, body, t) ==
    [m EXCEPT !.completedJobs = Put(@, body.id[1], Append(OrEmptyList(@, body.id[1]), body)),
              !.lastUpdateTimes = Put(@, body.id[1], t)]

\* a worker finishes solveSubJob: it POSTs the column it found, or nothing
\* when hybridSolve threw, and is idle again
ColumnResult(w) ==
    /\ slaves[w] # {}
    /\ slaves' = [slaves EXCEPT ![w] = {}]
    /\ \E job \in slaves[w] :
          LET results == columnHybridSolve(job.board, job.originalBoard, job.colIndex)
          IN IF results = {} THEN ColumnCommit(ColumnMaster)
             ELSE \E result \in results :
                     ColumnCommit(columnPostResult(ColumnMaster,
                         [id |-> job.id, board |-> result.column,
                          colIndex |-> job.colIndex, sure |-> result.sure], now))
    /\ UNCHANGED <<now, initialBlueprintStore, response, notInColumnMaster>>

\* the timer callback, every second
ColumnCheckAndCombineResults ==
    /\ ColumnCommit(columnCheckJobs(ColumnMaster, DOMAIN originalSubJobsStore, now))
    /\ UNCHANGED <<now, slaves, initialBlueprintStore, response, notInColumnMaster>>

ColumnTickMs == 61000
MaxColumnTicks == 1

\* the clock advances past the stall threshold of the Column master
ColumnTick ==
    /\ now + ColumnTickMs <= MaxColumnTicks * ColumnTickMs
    /\ now' = now + ColumnTickMs
    /\ UNCHANGED <<jobQueue, completedJobs, originalSubJobsStore, currentBlueprintStore,
                   jobStartTimes, lastUpdateTimes, finalSolvedResults, nextSubJobIndex,
                   slaves, initialBlueprintStore, response, notInColumnMaster>>

\* the empty 4x4 board
Empty4 == MkBoard(4, LAMBDA i, j : 0)

ColumnBoards == {Rectangle, Empty2, Empty4}

NextColumn ==
    \/ \E board \in ColumnBoards : ColumnSolve(board)
    \/ \E w \in ColumnWorkers : ColumnQueue(w)
    \/ \E w \in ColumnWorkers : ColumnResult(w)
    \/ ColumnCheckAndCombineResults
    \/ ColumnTick

SpecColumn == Init /\ [][NextColumn]_vars

----------------------------------------------------------------------------
(* Properties of the ColumnBasedSolver master *)

\* the columns of jobId that have a result in completedJobs
columnsReturned(jobId) ==
    {completedJobs[jobId][k].colIndex : k \in DOMAIN OrEmptyList(completedJobs, jobId)}

\* C11: the count of recorded results reaches the expected count only when
\* every partition (column) the job was split into has a recorded result
AllReturnedMeansEveryColumn ==
    \A jobId \in DOMAIN originalSubJobsStore :
        Len(OrEmptyList(completedJobs, jobId)) = Len(originalSubJobsStore[jobId])
            => \A k \in DOMAIN originalSubJobsStore[jobId] :
                   originalSubJobsStore[jobId][k].colIndex \in columnsReturned(jobId)

\* the conflict list of jobId when the periodic check is about to requeue
\* its conflicting columns, and the empty list otherwise (lines 304-330)
selectiveConflicts(jobId) ==
    LET combined == columnCombineSections(ColumnMaster, jobId)
    IN IF /\ Len(OrEmptyList(completedJobs, jobId)) = Len(originalSubJobsStore[jobId])
          /\ combined # {}
          /\ \A b \in combined : isPerfectSquare(Size(b)) /\ ~columnIsValidSudoku(b)
       THEN getConflictingColumns(CHOOSE b \in combined : TRUE)
       ELSE <<>>

\* C12: a selective requeue with conflict set C removes exactly the results
\* whose partition is in C, keeps every other result, and appends to the
\* queue one new sub-job for each partition in C and nothing else.  (The
\* Column master keeps no iteration count, so that part has nothing to
\* refer to here.)
SelectiveRequeueKeepsTheRest ==
    [][\A jobId \in DOMAIN originalSubJobsStore :
          (selectiveConflicts(jobId) # <<>> /\ ColumnCheckAndCombineResults) =>
              /\ Has(completedJobs', jobId)
              /\ completedJobs'[jobId] =
                     SelectSeq(completedJobs[jobId],
                         LAMBDA job : job.colIndex \notin Range(selectiveConflicts(jobId)))
              /\ Len(jobQueue') = Len(jobQueue) + Len(selectiveConflicts(jobId))
              /\ \A k \in DOMAIN selectiveConflicts(jobId) :
                     /\ jobQueue'[Len(jobQueue) + k].id[1] = jobId
                     /\ jobQueue'[Len(jobQueue) + k].colIndex = selectiveConflicts(jobId)[k]
      ]_vars

\* the periodic check is about to requeue all of jobId (lines 331-344)
fullRequeueDue(jobId) ==
    LET expected == Len(originalSubJobsStore[jobId])
        actual == Len(OrEmptyList(completedJobs, jobId))
        combined == columnCombineSections(ColumnMaster, jobId)
    IN IF actual = expected
       THEN \/ combined = {}
            \/ \E b \in combined :
                   \/ ~isPerfectSquare(Size(b))
                   \/ ~columnIsValidSudoku(b) /\ getConflictingColumns(b) = <<>>
       ELSE actual > 0 /\ now - OrElse(lastUpdateTimes, jobId, 0) > ColumnStallMs

\* the partitions (columns) of board that contain a zero
openColumns(board) ==
    {col \in 0..(Size(board) - 1) : \E row \in 0..(Size(board) - 1) : board[row][col] = 0}

\* C14: after a full requeue the completed results of the job are empty and
\* the queue holds for the job exactly one sub-job for each partition of the
\* rebuilt blueprint that contains a zero, and no older sub-job of the job.
\* (The Column master keeps no iteration count, so that part has nothing to
\* refer to here.)
FullRequeueRepartitions ==
    [][\A jobId \in DOMAIN originalSubJobsStore :
          (fullRequeueDue(jobId) /\ ColumnCheckAndCombineResults) =>
              LET queued == SelectSeq(jobQueue', LAMBDA job : job.id[1] = jobId)
                  open == openColumns(currentBlueprintStore'[jobId])
              IN /\ completedJobs'[jobId] = <<>>
                 /\ {queued[k].colIndex : k \in DOMAIN queued} = open
                 /\ Len(queued) = Cardinality(open)
      ]_vars

\* C1: every cell that is a clue of the board as submitted has the same
\* value in the job's current blueprint
CluePreservation ==
    \A jobId \in DOMAIN currentBlueprintStore :
        \A i, j \in 0..(Size(currentBlueprintStore[jobId]) - 1) :
            initialBlueprintStore[jobId][i][j] # 0 =>
                currentBlueprintStore[jobId][i][j] = initialBlueprintStore[jobId][i][j]

----------------------------------------------------------------------------
(* The StochasticSearch master of src/unnamed/part_009, lines 1-884: the   *)
(* functions on a record m of its stores.  The slave is the StochasticSearch *)
(* slave; this master puts no iteration on a sub-job (0 stands for the     *)
(* missing field).  A sub-job carries the flag stored when it is an        *)
(* element of originalSubJobsStore.  resultQueue is empty and              *)
(* isProcessingResults false whenever a handler starts: processResultQueue *)
(* drains the queue before the event loop runs another handler.            *)

EarlyMaster ==
    [jobQueue |-> jobQueue, completedJobs |-> completedJobs,
     jobSubJobCount |-> jobSubJobCount, originalSubJobsStore |-> originalSubJobsStore,
     jobStartTimes |-> jobStartTimes, lastUpdateTimes |-> lastUpdateTimes,
     currentBlueprintStore |-> currentBlueprintStore,
     initialBlueprintStore |-> initialBlueprintStore,
     nextSubJobIndex |-> nextSubJobIndex, finalSolvedResults |-> finalSolvedResults]

EarlyCommit(m) ==
    /\ jobQueue' = m.jobQueue
    /\ completedJobs' = m.completedJobs
    /\ jobSubJobCount' = m.jobSubJobCount
    /\ originalSubJobsStore' = m.originalSubJobsStore
    /\ jobStartTimes' = m.jobStartTimes
    /\ lastUpdateTimes' = m.lastUpdateTimes
    /\ currentBlueprintStore' = m.currentBlueprintStore
    /\ initialBlueprintStore' = m.initialBlueprintStore
    /\ nextSubJobIndex' = m.nextSubJobIndex
    /\ finalSolvedResults' = m.finalSolvedResults

\* isBlockValid: the block holds each of 1..fullSize once
isBlockValid(subGrid, fullSize) ==
    LET cells == (DOMAIN subGrid) \X (DOMAIN subGrid[0])
    IN /\ Cardinality(cells) = fullSize
       /\ {subGrid[p[1]][p[2]] : p \in cells} = 1..fullSize

\* the blocks of the board that hold a zero, in the order of the nested loops
unsolvedBlocksOf(board) ==
    SelectSeq(blockList(Size(board)),
              LAMBDA b : ~isBlockSolved(extractBlock(board, b[1], b[2])))

earlySubJob(jobId, board, block, index, isRequeued) ==
    [id |-> <<jobId, index>>, board |-> extractBlock(board, block[1], block[2]),
     blockRow |-> block[1], blockCol |-> block[2], originalBoard |-> board,
     partialBoard |-> IF isRequeued THEN {board} ELSE {},
     isRequeued |-> isRequeued, iteration |-> 0, stored |-> TRUE]

\* splitAndQueueJob: a sub-job for every block with an empty cell
earlySplitAndQueueJob(m, jobId, board, gridSize, isRequeued) ==
    LET blocks == unsolvedBlocksOf(board)
        subJobs == [k \in DOMAIN blocks |->
                       earlySubJob(jobId, board, blocks[k], k, isRequeued)]
    IN [m |-> [m EXCEPT !.nextSubJobIndex = Put(@, jobId, Len(blocks) + 1),
                        !.jobQueue = @ \o subJobs,
                        !.jobSubJobCount = IF isRequeued THEN @
                                           ELSE Put(@, jobId, Len(blocks))],
        subJobs |-> subJobs]

\* updatedBoard with the cells one result marks as sure
earlyOverlaySure(updatedBoard, result) ==
    LET n == Size(updatedBoard)
        blockRows == blockRowsOf(n)
        blockCols == blockColsOf(n)
    IN MkBoard(n, LAMBDA r, c :
           IF /\ r \div blockRows = result.blockRow
              /\ c \div blockCols = result.blockCol
              /\ result.sure[r % blockRows][c % blockCols]
           THEN result.board[r % blockRows][c % blockCols]
           ELSE updatedBoard[r][c])

RECURSIVE earlyOverlayResults(_, _, _)
earlyOverlayResults(updatedBoard, results, k) ==
    IF k > Len(results) THEN updatedBoard
    ELSE earlyOverlayResults(earlyOverlaySure(updatedBoard, results[k]), results, k + 1)

\* updatePartialBoardFromSure: the clues and the sure cells of every result;
\* the sub-jobs of originalSubJobsStore, queued or not, get the new board
earlyUpdatePartialBoardFromSure(m, parentId) ==
    IF OrEmptyList(m.originalSubJobsStore, parentId) = <<>> THEN m
    ELSE LET updatedBoard == earlyOverlayResults(m.initialBlueprintStore[parentId],
                                 OrEmptyList(m.completedJobs, parentId), 1)
             refreshedJob(job) == IF job.id[1] = parentId /\ job.stored
                                  THEN [job EXCEPT !.partialBoard = {updatedBoard}]
                                  ELSE job
         IN [m EXCEPT !.currentBlueprintStore = Put(@, parentId, updatedBoard),
                      !.jobQueue = [k \in DOMAIN @ |-> refreshedJob(@[k])],
                      !.originalSubJobsStore =
                          Put(@, parentId,
                              [k \in DOMAIN @[parentId] |-> refreshedJob(@[parentId][k])])]

\* requeueConflictingBlocks: every result is dropped, one sub-job per block
earlyRequeueConflictingBlocks(m, parentId, conflictingBlocks) ==
    LET m1 == earlyUpdatePartialBoardFromSure(m, parentId)
        board == m1.currentBlueprintStore[parentId]
        subJobs == [k \in DOMAIN conflictingBlocks |->
                       earlySubJob(parentId, board, conflictingBlocks[k], k, TRUE)]
    IN [m1 EXCEPT !.nextSubJobIndex = Put(@, parentId, Len(conflictingBlocks) + 1),
                  !.completedJobs = Put(@, parentId, <<>>),
                  !.jobQueue = @ \o subJobs,
                  !.originalSubJobsStore = Put(@, parentId, @[parentId] \o subJobs)]

\* requeueJobs: the waiting sub-jobs stay in the queue
earlyRequeueJobs(m, parentId, t) ==
    LET m1 == earlyUpdatePartialBoardFromSure(m, parentId)
        blueprint == m1.currentBlueprintStore[parentId]
        m2 == [m1 EXCEPT !.completedJobs = Put(@, parentId, <<>>),
                         !.jobQueue = [k \in DOMAIN @ |->
                             IF @[k].id[1] = parentId THEN [@[k] EXCEPT !.stored = FALSE]
                             ELSE @[k]]]
        s == earlySplitAndQueueJob(m2, parentId, blueprint, Size(blueprint), TRUE)
    IN [s.m EXCEPT !.originalSubJobsStore = Put(@, parentId, s.subJobs),
                   !.lastUpdateTimes = Put(@, parentId, t)]

\* combineSections: the blueprint with every result block that is a full
\* permutation; the other results are skipped
earlyCombineResult(combined, result) ==
    LET n == Size(combined)
        blockRows == blockRowsOf(n)
        blockCols == blockColsOf(n)
    IN IF ~isBlockValid(result.board, blockRows * blockCols) THEN combined
       ELSE MkBoard(n, LAMBDA r, c :
                IF r \div blockRows = result.blockRow /\ c \div blockCols = result.blockCol
                THEN result.board[r % blockRows][c % blockCols]
                ELSE combined[r][c])

RECURSIVE earlyCombineResults(_, _, _)
earlyCombineResults(combined, results, k) ==
    IF k > Len(results) THEN combined
    ELSE earlyCombineResults(earlyCombineResult(combined, results[k]), results, k + 1)

\* called only for a job whose blueprint is stored, so it never throws
earlyCombineSections(m, parentId) ==
    earlyCombineResults(m.currentBlueprintStore[parentId],
                        OrEmptyList(m.completedJobs, parentId), 1)

earlyIsValidSudoku(board) ==
    LET gridSize == Size(board)
        idx == 0..(gridSize - 1)
    IN /\ \A row \in idx : \A col \in idx : board[row][col] # 0
       /\ \A row \in idx : \A c1, c2 \in idx : c1 # c2 => board[row][c1] # board[row][c2]
       /\ \A col \in idx : \A r1, r2 \in idx : r1 # r2 => board[r1][col] # board[r2][col]
       /\ \A k \in DOMAIN blockList(gridSize) :
              isBlockValid(extractBlock(board, blockList(gridSize)[k][1],
                                        blockList(gridSize)[k][2]), gridSize)

\* one row or column of getConflictingBlocks: the pairs <<first, k>> of a
\* repeated value, seen[val] being the first cell that held the value
earlyScanLine(line) ==
    LET repeated(k) == line[k] # 0 /\ \E p \in 0..(k - 1) : line[p] = line[k]
        first(k) == CHOOSE p \in 0..(k - 1) :
                        line[p] = line[k] /\ \A q \in 0..(p - 1) : line[q] # line[k]
        ks == SelectSeq([x \in 1..Cardinality(DOMAIN line) |-> x - 1], repeated)
    IN [x \in DOMAIN ks |-> <<first(ks[x]), ks[x]>>]

\* the blocks added to conflictSet by line k: rows first, then columns
earlyLineConflicts(combinedBoard, k) ==
    LET gridSize == Size(combinedBoard)
        blockRows == blockRowsOf(gridSize)
        blockCols == blockColsOf(gridSize)
        j == k - gridSize
        hits == IF k < gridSize THEN earlyScanLine(combinedBoard[k])
                ELSE earlyScanLine([i \in 0..(gridSize - 1) |-> combinedBoard[i][j]])
    IN [x \in 1..(2 * Len(hits)) |->
           IF k < gridSize
           THEN <<k \div blockRows, hits[(x + 1) \div 2][2 - (x % 2)] \div blockCols>>
           ELSE <<hits[(x + 1) \div 2][2 - (x % 2)] \div blockRows, j \div blockCols>>]

RECURSIVE earlyConflictsFrom(_, _, _)
earlyConflictsFrom(combinedBoard, k, conflictSet) ==
    IF k >= 2 * Size(combinedBoard) THEN conflictSet
    ELSE earlyConflictsFrom(combinedBoard, k + 1,
             addConflicts(conflictSet, earlyLineConflicts(combinedBoard, k), 1))

earlyGetConflictingBlocks(combinedBoard) == earlyConflictsFrom(combinedBoard, 0, <<>>)

\* the number of empty cells of a board
emptyCells(board) ==
    Cardinality({p \in (DOMAIN board) \X (DOMAIN board) : board[p[1]][p[2]] = 0})

earlyCleanUp(m, parentId) ==
    [m EXCEPT !.originalSubJobsStore = Del(@, parentId),
              !.completedJobs = Del(@, parentId),
              !.jobSubJobCount = Del(@, parentId),
              !.lastUpdateTimes = Del(@, parentId),
              !.jobStartTimes = Del(@, parentId),
              !.currentBlueprintStore = Del(@, parentId),
              !.initialBlueprintStore = Del(@, parentId),
              !.nextSubJobIndex = Del(@, parentId)]

earlyRecordSolution(m, parentId, board) ==
    earlyCleanUp([m EXCEPT !.finalSolvedResults =
                               Put(@, parentId, [jobId |-> parentId, solvedBoard |-> board,
                                                 status |-> "completed"])], parentId)

EarlyStallMs == 10000
EarlyFewBlocks == 3
EarlyTimeoutMs == 90000

\* lines 526-571: every expected result is in
earlyCombineOrRequeue(m, parentId, t) ==
    IF earlyIsValidSudoku(earlyCombineSections(m, parentId))
    THEN earlyRecordSolution(m, parentId, earlyCombineSections(m, parentId))
    ELSE Value(earlyUpdatePartialBoardFromSure(m, parentId), LAMBDA m1 :
             Value(earlyGetConflictingBlocks(earlyCombineSections(m1, parentId)),
                   LAMBDA conflictingBlocks :
                       IF Len(conflictingBlocks) > 0
                       THEN earlyRequeueConflictingBlocks(m1, parentId, conflictingBlocks)
                       ELSE earlyRequeueJobs(m1, parentId, t)))

\* lines 434-571: m is the stores after the update of lines 430-432
earlyDecide(m, parentId, expected, actual, t) ==
    LET blueprint == m.currentBlueprintStore[parentId]
        unsolvedBlocks == unsolvedBlocksOf(blueprint)
        jobsInQueue == Len(SelectSeq(m.jobQueue, LAMBDA job : job.id[1] = parentId))
        lastBlueprint == IF OrEmptyList(m.completedJobs, parentId) # <<>>
                         THEN m.completedJobs[parentId][1].originalBoard
                         ELSE m.initialBlueprintStore[parentId]
        progress == emptyCells(lastBlueprint) - emptyCells(blueprint)
    IN IF /\ Len(unsolvedBlocks) > 0
          /\ jobsInQueue = 0
          /\ progress <= 0
          /\ t - m.lastUpdateTimes[parentId] > EarlyStallMs
       THEN IF Len(unsolvedBlocks) <= EarlyFewBlocks
            THEN earlyRequeueConflictingBlocks(m, parentId, unsolvedBlocks)
            ELSE earlyRequeueJobs(m, parentId, t)
       ELSE IF actual < expected
       THEN IF isFull(blueprint) /\ earlyIsValidSudoku(blueprint)
            THEN earlyRecordSolution(m, parentId, blueprint)
            ELSE IF (t - m.lastUpdateTimes[parentId]) * 9 > EarlyTimeoutMs * Size(blueprint)
            THEN earlyRequeueJobs(m, parentId, t)
            ELSE m
       ELSE IF actual = expected THEN earlyCombineOrRequeue(m, parentId, t)
       ELSE m

\* the body of the forEach of checkAndCombineResults
earlyCheckJob(m, parentId, t) ==
    LET actual == Len(OrEmptyList(m.completedJobs, parentId))
    IN Value(IF actual > 0 THEN earlyUpdatePartialBoardFromSure(m, parentId) ELSE m,
             LAMBDA m1 : earlyDecide(m1, parentId, m1.jobSubJobCount[parentId], actual, t))

RECURSIVE earlyCheckJobs(_, _, _)
earlyCheckJobs(m, jobIds, t) ==
    IF jobIds = {} THEN m
    ELSE LET parentId == CHOOSE x \in jobIds : \A y \in jobIds : x <= y
         IN earlyCheckJobs(earlyCheckJob(m, parentId, t), jobIds \ {parentId}, t)

----------------------------------------------------------------------------
(* The master of part_009, lines 1-884, and the StochasticSearch slaves:   *)
(* the state machine                                                       *)

notInEarlyMaster == <<iterationCounts, pendingJobs, currentBlueprints, slaveStatus, stopped>>

\* POST /solve, lines 641-685: the first block of an empty board is pre-solved
earlyPreSolved(board) ==
    IF ~isEmptyBoard(board) THEN {board}
    ELSE {MkBoard(Size(board), LAMBDA i, j :
              IF i < blockRowsOf(Size(board)) /\ j < blockColsOf(Size(board))
              THEN r.block[i][j] ELSE board[i][j]) :
              r \in StochasticBlockSolver(board, 0, 0, board)}

EarlySolve(board) ==
    /\ Cardinality(knownJobs) < MaxJobs
    /\ now \notin knownJobs
    /\ \E workingBoard \in earlyPreSolved(board) :
           LET m == [EarlyMaster EXCEPT !.jobStartTimes = Put(@, now, now),
                                        !.initialBlueprintStore = Put(@, now, board),
                                        !.currentBlueprintStore = Put(@, now, workingBoard)]
               s == earlySplitAndQueueJob(m, now, workingBoard, Size(workingBoard), FALSE)
           IN EarlyCommit([s.m EXCEPT !.jobSubJobCount = Put(@, now, Len(s.subJobs)),
                                      !.originalSubJobsStore = Put(@, now, s.subJobs),
                                      !.lastUpdateTimes = Put(@, now, now)])
    /\ response' = [status |-> "processing", solvedBoard |-> {}]
    /\ UNCHANGED <<now, slaves, notInEarlyMaster>>

\* the job as /queue sends it, lines 702-723; the blueprint is stored
earlyRefreshed(job) ==
    LET blueprint == currentBlueprintStore[job.id[1]]
        extractedBlock == extractBlock(blueprint, job.blockRow, job.blockCol)
        isAllZeroes(block) == \A i \in DOMAIN block : \A j \in DOMAIN block[i] : block[i][j] = 0
    IN [job EXCEPT !.partialBoard = IF job.isRequeued THEN {blueprint} ELSE @,
                   !.board = IF isAllZeroes(@) /\ ~isAllZeroes(extractedBlock)
                             THEN extractedBlock ELSE @]

\* GET /queue.  A job whose blueprint is gone is sent as it is, unless its
\* block is all zeros: then extractBlock throws and the job is lost.  A
\* sub-job that is an element of originalSubJobsStore changes there too.
EarlyQueue(w) ==
    /\ slaves[w] = {}
    /\ jobQueue # <<>>
    /\ jobQueue' = Tail(jobQueue)
    /\ LET job == Head(jobQueue)
           parentId == job.id[1]
       IN IF Has(currentBlueprintStore, parentId)
          THEN /\ slaves' = [slaves EXCEPT ![w] = {earlyRefreshed(job)}]
               /\ originalSubJobsStore' =
                      IF job.stored /\ Has(originalSubJobsStore, parentId)
                      THEN Put(originalSubJobsStore, parentId,
                               [k \in DOMAIN originalSubJobsStore[parentId] |->
                                   IF originalSubJobsStore[parentId][k] = job
                                   THEN earlyRefreshed(job)
                                   ELSE originalSubJobsStore[parentId][k]])
                      ELSE originalSubJobsStore
          ELSE /\ slaves' = [slaves EXCEPT ![w] =
                                IF isEmptyBoard(job.board) THEN {} ELSE {job}]
               /\ UNCHANGED originalSubJobsStore
    /\ UNCHANGED <<now, completedJobs, jobSubJobCount, jobStartTimes, lastUpdateTimes,
                   currentBlueprintStore, initialBlueprintStore, nextSubJobIndex,
                   finalSolvedResults, response, notInEarlyMaster>>

\* processResult, lines 840-877: the board the result is kept with
earlyFinalOrig(m, id) ==
    LET parentId == id[1]
        subJobs == SelectSeq(OrEmptyList(m.originalSubJobsStore, parentId),
                             LAMBDA job : job.id = id)
    IN IF subJobs # <<>>
       THEN IF subJobs[1].partialBoard # {} THEN subJobs[1].partialBoard
            ELSE {subJobs[1].originalBoard}
       ELSE IF Has(m.initialBlueprintStore, parentId)
       THEN {m.initialBlueprintStore[parentId]}
       ELSE {}

\* POST /result and the processResultQueue it starts
earlyPostResult(m, body, t) ==
    LET parentId == body.id[1]
        m1 == [m EXCEPT !.lastUpdateTimes = Put(@, parentId, t)]
    IN IF earlyFinalOrig(m, body.id) = {} THEN m1
       ELSE earlyUpdatePartialBoardFromSure(
                [m1 EXCEPT !.completedJobs =
                     Put(@, parentId, Append(OrEmptyList(@, parentId),
                         [id |-> body.id, board |-> body.board,
                          blockRow |-> body.blockRow, blockCol |-> body.blockCol,
                          originalBoard |-> CHOOSE b \in earlyFinalOrig(m, body.id) : TRUE,
                          sure |-> body.sure]))], parentId)

EarlyResult(w) ==
    /\ slaves[w] # {}
    /\ slaves' = [slaves EXCEPT ![w] = {}]
    /\ \E job \in slaves[w] : \E body \in solveSubJob(job) :
           \E m \in {earlyPostResult(EarlyMaster, body, now)} : EarlyCommit(m)
    /\ UNCHANGED <<now, response, notInEarlyMaster>>

MaxEarlyQueue == 3
MaxEarlyStored == 4

\* the sub-jobs waiting and kept stay within the bounds of the model
earlyWithinBounds(m) ==
    /\ Len(m.jobQueue) <= MaxEarlyQueue
    /\ \A jobId \in DOMAIN m.originalSubJobsStore :
           Len(m.originalSubJobsStore[jobId]) <= MaxEarlyStored

\* the timer callback, every second
EarlyCheckAndCombineResults ==
    /\ \E m \in {earlyCheckJobs(EarlyMaster, DOMAIN originalSubJobsStore, now)} :
           earlyWithinBounds(m) /\ EarlyCommit(m)
    /\ UNCHANGED <<now, slaves, response, notInEarlyMaster>>

\* GET /FinalsolvedResults?jobId=, lines 577-638
EarlyFinalsolvedResults(jobId) ==
    /\ IF Has(finalSolvedResults, jobId)
       THEN /\ response' = [status |-> "completed",
                            solvedBoard |-> {finalSolvedResults[jobId].solvedBoard}]
            /\ UNCHANGED finalSolvedResults
       ELSE IF /\ Has(completedJobs, jobId)
               /\ Has(jobSubJobCount, jobId)
               /\ Len(completedJobs[jobId]) = jobSubJobCount[jobId]
               /\ isFull(earlyCombineSections(EarlyMaster, jobId))
       THEN /\ finalSolvedResults' =
                   Put(finalSolvedResults, jobId,
                       [jobId |-> jobId, status |-> "completed",
                        solvedBoard |-> earlyCombineSections(EarlyMaster, jobId)])
            /\ response' = [status |-> "completed",
                            solvedBoard |-> {earlyCombineSections(EarlyMaster, jobId)}]
       ELSE IF Has(jobStartTimes, jobId) \/ Has(currentBlueprintStore, jobId)
       THEN /\ response' = [status |-> "processing", solvedBoard |-> {}]
            /\ UNCHANGED finalSolvedResults
       ELSE /\ response' = [status |-> "unknown", solvedBoard |-> {}]
            /\ UNCHANGED finalSolvedResults
    /\ UNCHANGED <<now, jobQueue, completedJobs, jobSubJobCount, originalSubJobsStore,
                   jobStartTimes, lastUpdateTimes, currentBlueprintStore,
                   initialBlueprintStore, nextSubJobIndex, slaves, notInEarlyMaster>>

MaxEarlyTicks == 1
NumEarlyWorkers == 1
EarlyWorkers == 1..NumEarlyWorkers

\* the ids a client asks about: the job's and one no job has
EarlyJobIds == {0, TickMs}

\* the clock advances
EarlyTick ==
    /\ now + TickMs <= MaxEarlyTicks * TickMs
    /\ now' = now + TickMs
    /\ UNCHANGED <<jobQueue, completedJobs, jobSubJobCount, originalSubJobsStore,
                   jobStartTimes, lastUpdateTimes, currentBlueprintStore,
                   initialBlueprintStore, nextSubJobIndex, finalSolvedResults,
                   slaves, response, notInEarlyMaster>>

NextEarly ==
    \/ EarlySolve(Rectangle)
    \/ \E w \in EarlyWorkers : EarlyQueue(w)
    \/ \E w \in EarlyWorkers : EarlyResult(w)
    \/ EarlyCheckAndCombineResults
    \/ \E jobId \in EarlyJobIds : EarlyFinalsolvedResults(jobId)
    \/ EarlyTick

SpecEarly == Init /\ [][NextEarly]_vars

\* C8: a board recorded in finalSolvedResults, and so every board a client is
\* sent with status completed, is full and has no value twice in a row, a
\* column or a block.
RecordedBoardIsValid ==
    /\ \A jobId \in DOMAIN finalSolvedResults :
           earlyIsValidSudoku(finalSolvedResults[jobId].solvedBoard)
    /\ response.status = "completed" =>
           \A board \in response.solvedBoard : earlyIsValidSudoku(board)

----------------------------------------------------------------------------
(* Requests to POST /result that lack a field *)

\* the fields app.post('/result') tests for (line 741)
RequiredFields == {"id", "board", "blockRow", "blockCol", "sure"}

\* a request body without the field f
without(body, f) == [k \in (DOMAIN body) \ {f} |-> body[k]]

\* app.post('/result'), lines 735-770, for any request body: the stores it
\* leaves and the HTTP status it answers with.  Line 737 calls id.split
\* before the test of line 741; without an id that throws a TypeError, which
\* express answers with status 500.
resultHandler(m, body, t) ==
    IF "id" \notin DOMAIN body THEN [m |-> m, status |-> "500"]
    ELSE IF \E f \in RequiredFields : f \notin DOMAIN body
    THEN [m |-> m, status |-> "400"]
    ELSE [m |-> postResult(m, body, t), status |-> "200"]

\* a client POSTs the result of a sub-job that worker w holds, without field f
MalformedResult(w, f) ==
    /\ slaves[w] # {}
    /\ \E job \in slaves[w] : \E body \in solveSubJob(job) :
           \E r \in {resultHandler(Master, without(body, f), now)} :
               /\ Commit(r.m)
               /\ response' = [status |-> r.status, solvedBoard |-> {}]
    /\ UNCHANGED <<now, slaves, otherMasters>>

NextIngress ==
    \/ Solve(Rectangle)
    \/ \E w \in Workers : Queue(w)
    \/ \E w \in Workers : Result(w)
    \/ \E w \in Workers : \E f \in RequiredFields : MalformedResult(w, f)
    \/ CheckAndCombineResults

SpecIngress == Init /\ [][NextIngress]_vars

\* C21: a POST /result that lacks the id, the board, a partition index or the
\* sure mask is answered with status 400 and leaves every store of the master
\* as it was.
MalformedResultRejected ==
    [][\A w \in Workers : \A f \in RequiredFields :
          MalformedResult(w, f) =>
              /\ response'.status = "400"
              /\ UNCHANGED <<jobQueue, completedJobs, jobSubJobCount, originalSubJobsStore,
                             jobStartTimes, lastUpdateTimes, currentBlueprintStore,
                             initialBlueprintStore, iterationCounts, finalSolvedResults>>]_vars

----------------------------------------------------------------------------
(* Release of a job's stores *)

\* the jobs that some per-job structure of the master still knows
heldJobs ==
    (DOMAIN completedJobs) \cup (DOMAIN currentBlueprintStore)
        \cup (DOMAIN initialBlueprintStore) \cup (DOMAIN jobSubJobCount)
        \cup (DOMAIN iterationCounts) \cup (DOMAIN jobStartTimes)
        \cup (DOMAIN lastUpdateTimes) \cup (DOMAIN originalSubJobsStore)
        \cup {jobQueue[k].id[1] : k \in DOMAIN jobQueue}

\* C22: a job that is marked solved has no completed results, blueprints,
\* expected count, iteration, timestamps or queued sub-jobs, in every state
\* from then on, late results included.
ReleasedWhenSolved == \A jobId \in DOMAIN finalSolvedResults : jobId \notin heldJobs

----------------------------------------------------------------------------
(* The board a worker solves against *)

\* the reference board of solveSubJob: partialBoard || originalBoard
contextOf(job) == IF job.partialBoard # {} THEN job.partialBoard ELSE {job.originalBoard}

\* the master of part_009, lines 1-884, given the empty 3x3 board
NextEarlySeed ==
    \/ EarlySolve(Empty3)
    \/ \E w \in EarlyWorkers : EarlyQueue(w)
    \/ \E w \in EarlyWorkers : EarlyResult(w)

SpecEarlySeed == Init /\ [][NextEarlySeed]_vars

\* C23: the context board of the sub-job a worker pulls is the board the
\* sub-job was cut from when it was created, and the sub-job's block equals
\* the cells of that block in the context board, whatever was aggregated
\* between creation and pull.
ContextIsSnapshot ==
    [][\A w \in EarlyWorkers :
          EarlyQueue(w) =>
              \A job \in slaves'[w] : \A context \in contextOf(job) :
                  /\ context = Head(jobQueue).originalBoard
                  /\ job.board = extractBlock(context, job.blockRow, job.blockCol)]_vars

----------------------------------------------------------------------------
(* The naked-singles propagators as functions of a board.  The given board *)
(* is initialBlueprintStore[0]; currentBlueprintStore[0] is the board left *)
(* by applyNakedSingles of the StochasticSearch master, applied            *)
(* iterationCounts[0] times in a row; currentBlueprints holds the board    *)
(* left by applyNakedSinglesToBoard of the SingleStochasticSearch master.  *)

\* enhancedConstraintPropagation of StochasticSearch/solver.js repeats
\* applyNakedSingles of the master line for line
enhancedConstraintPropagation(board) == applyNakedSingles(board)

Solved4 == FromRows(<< <<1, 2, 3, 4>>, <<3, 4, 1, 2>>, <<2, 1, 4, 3>>, <<4, 3, 2, 1>> >>)

Solved6 ==
    FromRows(<< <<1, 2, 3, 4, 5, 6>>, <<4, 5, 6, 1, 2, 3>>, <<2, 3, 1, 5, 6, 4>>,
                <<5, 6, 4, 2, 3, 1>>, <<3, 1, 2, 6, 4, 5>>, <<6, 4, 5, 3, 1, 2>> >>)

\* board with the cells of the set emptied
masked(board, cells) ==
    [i \in DOMAIN board |-> [j \in DOMAIN board[i] |->
        IF <<i, j>> \in cells THEN 0 ELSE board[i][j]]]

\* every 2x2 board
Boards2 == [0..1 -> [0..1 -> 0..2]]

\* 4x4 boards: the upper half of a solved board emptied in part, and the
\* last cell holding any value, so that some boards repeat a value
Boards4 ==
    {SetCell(masked(Solved4, cells), 3, 3, v) :
         cells \in SUBSET ((0..1) \X (0..3)), v \in 0..4}

\* 6x6 boards, with blocks of 2 rows and 3 columns
Boards6 ==
    {masked(Solved6, cells) : cells \in SUBSET {<<0, 0>>, <<0, 4>>, <<1, 0>>, <<3, 3>>, <<5, 5>>}}

PropagatorBoards == Boards2 \cup Boards4 \cup Boards6 \cup {Empty3, Rectangle, Offset}

InitPropagate ==
    /\ now = 0
    /\ jobQueue = <<>>
    /\ completedJobs = EmptyObj
    /\ jobSubJobCount = EmptyObj
    /\ originalSubJobsStore = EmptyObj
    /\ jobStartTimes = EmptyObj
    /\ lastUpdateTimes = EmptyObj
    /\ currentBlueprintStore = EmptyObj
    /\ \E board \in PropagatorBoards : initialBlueprintStore = Put(EmptyObj, 0, board)
    /\ iterationCounts = Put(EmptyObj, 0, 0)
    /\ finalSolvedResults = EmptyObj
    /\ slaves = [w \in Workers |-> {}]
    /\ response = NoResponse
    /\ pendingJobs = <<>>
    /\ currentBlueprints = <<>>
    /\ slaveStatus = <<>>
    /\ stopped = {}
    /\ nextSubJobIndex = EmptyObj

MaxApplications == 2

\* applyNakedSingles on the given board, then on its own output
Propagate ==
    /\ iterationCounts[0] < MaxApplications
    /\ currentBlueprintStore' =
           Put(currentBlueprintStore, 0,
               applyNakedSingles(IF Has(currentBlueprintStore, 0)
                                 THEN currentBlueprintStore[0]
                                 ELSE initialBlueprintStore[0]))
    /\ iterationCounts' = Put(iterationCounts, 0, iterationCounts[0] + 1)
    /\ UNCHANGED <<now, jobQueue, completedJobs, jobSubJobCount, originalSubJobsStore,
                   jobStartTimes, lastUpdateTimes, initialBlueprintStore,
                   finalSolvedResults, slaves, response, otherMasters>>

\* applyNakedSinglesToBoard on the given board, if its size is a perfect square
SinglePropagate ==
    /\ currentBlueprints = <<>>
    /\ FloorSqrt(Size(initialBlueprintStore[0])) * FloorSqrt(Size(initialBlueprintStore[0]))
           = Size(initialBlueprintStore[0])
    /\ currentBlueprints' =
           assign(currentBlueprints, 0, applyNakedSinglesToBoard(initialBlueprintStore[0]))
    /\ UNCHANGED <<now, jobQueue, completedJobs, jobSubJobCount, originalSubJobsStore,
                   jobStartTimes, lastUpdateTimes, currentBlueprintStore,
                   initialBlueprintStore, iterationCounts, finalSolvedResults, slaves,
                   response, pendingJobs, slaveStatus, stopped, nextSubJobIndex>>

NextPropagate == Propagate \/ SinglePropagate

SpecPropagate == InitPropagate /\ [][NextPropagate]_vars

\* C24 -- propagator idempotence: applying the naked-singles propagation to
\* its own output changes nothing, propagate(propagate(B)) = propagate(B).
PropagatorIdempotent ==
    [][(Has(currentBlueprintStore, 0) /\ Has(currentBlueprintStore', 0))
          => currentBlueprintStore'[0] = currentBlueprintStore[0]]_vars

\* the propagation filled a cell, and was applied to its own output
PropagatedTwice ==
    /\ iterationCounts = Put(EmptyObj, 0, MaxApplications)
    /\ Has(currentBlueprintStore, 0)
    /\ Has(initialBlueprintStore, 0)
    /\ currentBlueprintStore[0] # initialBlueprintStore[0]

\* no value twice in a row, a column or a block of the board
noRepeats(board) ==
    LET n == Size(board)
        idx == 0..(n - 1)
        sameBlock(p, q) == /\ p[1] \div blockRowsOf(n) = q[1] \div blockRowsOf(n)
                           /\ p[2] \div blockColsOf(n) = q[2] \div blockColsOf(n)
    IN \A p, q \in idx \X idx :
           (p # q /\ board[p[1]][p[2]] # 0 /\ (p[1] = q[1] \/ p[2] = q[2] \/ sameBlock(p, q)))
               => board[p[1]][p[2]] # board[q[1]][q[2]]

\* output keeps every non-zero cell of input, and is free of repeats if input is
onlyFills(input, output) ==
    /\ \A i \in DOMAIN input : \A j \in DOMAIN input[i] :
           input[i][j] # 0 => output[i][j] = input[i][j]
    /\ noRepeats(input) => noRepeats(output)

----------------------------------------------------------------------------
(* Cutting a board into its blocks and putting the blocks back.  The given *)
(* board is initialBlueprintStore[0]; completedJobs[0] holds its blocks and *)
(* finalSolvedResults[0] the board the blocks are written back to.         *)

\* every block of the board, as extractBlock gives it, in the order of
\* blockList
blocksOf(board) ==
    [k \in DOMAIN blockList(Size(board)) |->
        [blockRow |-> blockList(Size(board))[k][1],
         blockCol |-> blockList(Size(board))[k][2],
         board |-> extractBlock(board, blockList(Size(board))[k][1],
                                blockList(Size(board))[k][2]),
         sure |-> MkBlock(blockRowsOf(Size(board)), blockColsOf(Size(board)),
                          LAMBDA i, j : TRUE)]]

Partition ==
    /\ ~Has(completedJobs, 0)
    /\ completedJobs' = Put(completedJobs, 0, blocksOf(initialBlueprintStore[0]))
    /\ UNCHANGED <<now, jobQueue, jobSubJobCount, originalSubJobsStore, jobStartTimes,
                   lastUpdateTimes, currentBlueprintStore, initialBlueprintStore,
                   iterationCounts, finalSolvedResults, slaves, response, otherMasters>>

\* the blocks written at <<blockRow * blockRows, blockCol * blockCols>>, as
\* combineSections writes them, on a board of zeros
Reassemble ==
    /\ Has(completedJobs, 0)
    /\ ~Has(finalSolvedResults, 0)
    /\ finalSolvedResults' =
           Put(finalSolvedResults, 0,
               [board |-> combineResults(
                              MkBoard(Size(initialBlueprintStore[0]), LAMBDA i, j : 0),
                              completedJobs[0], 1),
                timestamp |-> now])
    /\ UNCHANGED <<now, jobQueue, completedJobs, jobSubJobCount, originalSubJobsStore,
                   jobStartTimes, lastUpdateTimes, currentBlueprintStore,
                   initialBlueprintStore, iterationCounts, slaves, response, otherMasters>>

NextPartition == Partition \/ Reassemble

SpecPartition == InitPropagate /\ [][NextPartition]_vars

\* C26 -- partition round-trip: the blocks of a board, each written back at
\* its own place, give the board again, and every cell of the board lies in
\* exactly one block, also when the size is not a perfect square.
PartitionRoundTrip ==
    /\ Has(finalSolvedResults, 0) =>
           finalSolvedResults[0].board = initialBlueprintStore[0]
    /\ Has(completedJobs, 0) =>
           LET n == Size(initialBlueprintStore[0])
           IN \A cell \in (0..(n - 1)) \X (0..(n - 1)) :
                  Cardinality({k \in DOMAIN completedJobs[0] :
                      cell \in cellsOfBlock(n, <<completedJobs[0][k].blockRow,
                                                 completedJobs[0][k].blockCol>>)}) = 1

\* a board whose size is not a perfect square, with clues, was put together
ReassembledSix ==
    /\ Has(finalSolvedResults, 0)
    /\ Has(initialBlueprintStore, 0)
    /\ Size(initialBlueprintStore[0]) = 6
    /\ Len(completedJobs[0]) = 6

----------------------------------------------------------------------------
(* The block partitioner *)

\* the job is split in this step: /solve and requeueJobs store the sub-jobs
\* splitAndQueueJob returns in originalSubJobsStore
partitioned(jobId) ==
    /\ Has(originalSubJobsStore', jobId)
    /\ Has(originalSubJobsStore, jobId) =>
           originalSubJobsStore'[jobId] # originalSubJobsStore[jobId]

\* C27: a step that runs the block partitioner creates one sub-job for each
\* block of the board that holds a zero and none for a full block, numbered
\* jobId.1, jobId.2, ... from 1 in each iteration, all of them queued, and
\* sets the job's expected count to the number created.
PartitionerCoversOpenBlocks ==
    [][\A jobId \in DOMAIN originalSubJobsStore' :
          partitioned(jobId) =>
              LET subJobs == originalSubJobsStore'[jobId]
                  board == currentBlueprintStore'[jobId]
                  open == SelectSeq(blockList(Size(board)),
                              LAMBDA b : ~isFull(extractBlock(board, b[1], b[2])))
                  queued == SelectSeq(jobQueue', LAMBDA job : job.id[1] = jobId)
              IN /\ Len(subJobs) = Len(open)
                 /\ \A k \in DOMAIN subJobs :
                        /\ subJobs[k].id = <<jobId, k>>
                        /\ <<subJobs[k].blockRow, subJobs[k].blockCol>> = open[k]
                        /\ subJobs[k].board = extractBlock(board, open[k][1], open[k][2])
                        /\ subJobs[k].iteration = iterationCounts'[jobId]
                 /\ queued = subJobs
                 /\ jobSubJobCount'[jobId] = Len(subJobs)]_vars

\* a job in its second iteration, split again by a full requeue, whose board
\* has full blocks and blocks with a zero
SplitAgain ==
    \E jobId \in DOMAIN originalSubJobsStore :
        /\ Has(iterationCounts, jobId)
        /\ iterationCounts[jobId] = 2
        /\ originalSubJobsStore[jobId] # <<>>
        /\ \A k \in DOMAIN originalSubJobsStore[jobId] :
               originalSubJobsStore[jobId][k].iteration = 2
        /\ Len(originalSubJobsStore[jobId]) < Len(blockList(Size(currentBlueprintStore[jobId])))

----------------------------------------------------------------------------
(* The job queue endpoint of the Single master *)

\* a request to /queue whose query has no slaveId
NoSlaveId == 0

\* who sends GET /queue: the workers, and a client that names no worker
Pollers == Workers \cup {NoSlaveId}

\* app.get('/queue') of the Single master: the state it leaves, the status
\* it answers with and the job it sends
queueHandler(m, slaveId, t) ==
    IF slaveId = NoSlaveId
    THEN [m |-> m, status |-> "400", job |-> {}]
    ELSE IF m.jobQueue = <<>>
    THEN [m |-> m, status |-> "404", job |-> {}]
    ELSE [m |-> [m EXCEPT !.jobQueue = shift(m.jobQueue).rest,
                          !.pendingJobs =
                              assign(@, shift(m.jobQueue).job.id,
                                     [job |-> shift(m.jobQueue).job,
                                      slaveId |-> slaveId, assignedAt |-> t])],
          status |-> "200",
          job |-> {shift(m.jobQueue).job}]

\* GET /queue by a worker that is between two jobs, whatever the queue
\* holds, or by a client that names no worker; the worker starts processJob
\* on the job it is sent
SinglePoll(slaveId) ==
    /\ slaveId \in Workers => slaveId \notin stopped /\ slaves[slaveId] = {}
    /\ \E r \in {queueHandler(SingleMaster, slaveId, now)} :
           /\ jobQueue' = r.m.jobQueue
           /\ pendingJobs' = r.m.pendingJobs
           /\ response' = [status |-> r.status, solvedBoard |-> {}, partialBoard |-> {}]
           /\ slaves' = IF slaveId \in Workers
                        THEN [slaves EXCEPT ![slaveId] =
                                  {[job |-> job, since |-> now] : job \in r.job}]
                        ELSE slaves
    /\ UNCHANGED <<now, completedJobs, currentBlueprints, slaveStatus, stopped,
                   stochasticSearchStores>>

MaxPolledJobs == 2

\* POST /solve while the master holds fewer than MaxPolledJobs jobs
SingleSubmit(board) ==
    /\ Cardinality(DOMAIN currentBlueprints) < MaxPolledJobs
    /\ now \notin DOMAIN currentBlueprints
    /\ singleSolve(board)

MaxPollBeats == 2

\* the clock advances by one heartbeat period, MaxPollBeats times
PollTick ==
    /\ now < MaxPollBeats * HeartbeatMs
    /\ SingleTick

NextPoll ==
    \/ \E board \in {Rectangle, RepeatedClue} : SingleSubmit(board)
    \/ \E slaveId \in Pollers : SinglePoll(slaveId)
    \/ \E w \in Workers : SingleResult(w)
    \/ PollTick

SpecPoll == Init /\ [][NextPoll]_vars

\* C28: GET /queue with a worker id hands out the job that was enqueued
\* first, removes it from the queue and records it in the pending map under
\* that worker; without a worker id it answers 400 and on an empty queue
\* 404, and in both cases the queue and the pending map stay as they were
QueueIsFifo ==
    [][\A slaveId \in Pollers :
           SinglePoll(slaveId) =>
               IF slaveId = NoSlaveId
               THEN /\ response'.status = "400"
                    /\ UNCHANGED <<jobQueue, pendingJobs>>
               ELSE IF jobQueue = <<>>
               THEN /\ response'.status = "404"
                    /\ UNCHANGED <<jobQueue, pendingJobs>>
               ELSE /\ response'.status = "200"
                    /\ jobQueue' = Tail(jobQueue)
                    /\ \A held \in slaves'[slaveId] : held.job = Head(jobQueue)
                    /\ slaves'[slaveId] # {}
                    /\ Head(jobQueue).id \in keysOf(pendingJobs')
                    /\ valueOf(pendingJobs', Head(jobQueue).id).slaveId = slaveId
                    /\ valueOf(pendingJobs', Head(jobQueue).id).job = Head(jobQueue)
                    /\ \A k \in 1..Len(pendingJobs) :
                           pendingJobs[k].key # Head(jobQueue).id =>
                               \E j \in 1..Len(pendingJobs') :
                                   pendingJobs'[j] = pendingJobs[k]]_vars

\* a worker has been handed the older of two queued jobs, which is pending
\* under it, while the younger one is still queued
OlderJobFirst ==
    \E w \in Workers :
        /\ response.status = "200"
        /\ jobQueue # <<>>
        /\ \E held \in slaves[w] :
               /\ held.job.id < Head(jobQueue).id
               /\ held.job.id \in keysOf(pendingJobs)
               /\ valueOf(pendingJobs, held.job.id).slaveId = w

----------------------------------------------------------------------------
(* The iteration counter of the StochasticSearch master *)

\* the periodic check is about to requeue jobId, some of its blocks or all
\* of them (lines 506-583)
requeueDue(jobId) ==
    LET actual == Len(currentResults(jobId))
        expected == OrElse(jobSubJobCount, jobId, 0)
        m == IF actual > 0 THEN updatePartialBoardFromSure(Master, jobId) ELSE Master
    IN /\ jobId \in DOMAIN originalSubJobsStore
       /\ expected > 0
       /\ IF actual >= expected
          THEN /\ ~(isFull(m.currentBlueprintStore[jobId])
                      /\ isValidSudoku(m.currentBlueprintStore[jobId]))
               /\ ~isValidSudoku(combineSections(m, jobId))
          ELSE now - OrElse(lastUpdateTimes, jobId, 0) > StallMs

\* C29: the iteration counter of a job starts at 1, never decreases, and
\* grows by exactly one in a step of the periodic check that requeues the
\* job, some of its blocks or all of them, and in no other step
IterationCounter ==
    [][\A jobId \in JobIds :
           /\ (~Has(iterationCounts, jobId) /\ Has(iterationCounts', jobId)) =>
                  iterationCounts'[jobId] = 1
           /\ (Has(iterationCounts, jobId) /\ Has(iterationCounts', jobId)) =>
                  iterationCounts'[jobId] =
                      iterationCounts[jobId] +
                          (IF CheckAndCombineResults /\ requeueDue(jobId) THEN 1 ELSE 0)
      ]_vars

\* a job is in its second iteration after a requeue of some of its blocks:
\* the sub-jobs stored at the split are still those of the first iteration
CountedSelectiveRequeue ==
    \E jobId \in DOMAIN iterationCounts :
        /\ iterationCounts[jobId] = 2
        /\ Has(originalSubJobsStore, jobId)
        /\ originalSubJobsStore[jobId] # <<>>
        /\ \A k \in DOMAIN originalSubJobsStore[jobId] :
               originalSubJobsStore[jobId][k].iteration = 1
        /\ \E k \in DOMAIN jobQueue :
               jobQueue[k].id[1] = jobId /\ jobQueue[k].iteration = 2

----------------------------------------------------------------------------
(* The seed of an empty board *)

\* the cells of the first block of the job's blueprint that hold a value
seeded(jobId) ==
    {cell \in cellsOfBlock(Size(currentBlueprintStore[jobId]), <<0, 0>>) :
        currentBlueprintStore[jobId][cell[1]][cell[2]] # 0}

\* C30: POST /solve with an all-zero board is accepted and fills one block
\* as seed, and the values of the seed are still in currentBlueprint after a
\* worker result of the same iteration has been taken in
SeedKept ==
    [][/\ Solve(Empty3) =>
              /\ response'.status = "processing"
              /\ Has(currentBlueprintStore', now)
              /\ \A cell \in cellsOfBlock(Size(Empty3), <<0, 0>>) :
                     currentBlueprintStore'[now][cell[1]][cell[2]] # 0
       /\ \A w \in Workers :
              Result(w) =>
                  \A jobId \in DOMAIN currentBlueprintStore :
                      (/\ Has(initialBlueprintStore, jobId)
                       /\ isEmptyBoard(initialBlueprintStore[jobId])
                       /\ Has(currentBlueprintStore', jobId)) =>
                          \A cell \in seeded(jobId) :
                              currentBlueprintStore'[jobId][cell[1]][cell[2]] =
                                  currentBlueprintStore[jobId][cell[1]][cell[2]]
      ]_vars

----------------------------------------------------------------------------
(* Repeated results at the Single master *)

\* the solved boards the master has stored for a job
storedSolutions(id) ==
    {OrEmptyList(completedJobs, id)[k] : k \in 1..Len(OrEmptyList(completedJobs, id))}
        \ {unsolvableOutcome}

\* POST /result { id, solvedBoard } with a board the master has stored for
\* the job before
SingleResubmit(id, outcome) ==
    /\ outcome \in storedSolutions(id)
    /\ singleResult(id, outcome)
    /\ UNCHANGED <<now, jobQueue, slaveStatus, slaves, stopped, response,
                   stochasticSearchStores>>

NextResubmit ==
    \/ SingleSolve(Rectangle)
    \/ \E w \in Workers : SingleQueue(w)
    \/ \E w \in Workers : SingleHeartbeat(w)
    \/ \E w \in Workers : SingleResult(w)
    \/ SingleTick
    \/ \E id \in SingleJobIds : \E outcome \in storedSolutions(id) :
           SingleResubmit(id, outcome)

SpecResubmit == Init /\ [][NextResubmit]_vars

\* C31: a job's stored solutions never hold two equal boards, and a POST
\* /result with a board that is already stored for the job leaves the job's
\* stored solutions and its current blueprint as they were
DuplicateSolutionDropped ==
    /\ [](\A id \in DOMAIN completedJobs :
              \A j, k \in 1..Len(completedJobs[id]) :
                  completedJobs[id][j] = completedJobs[id][k] => j = k)
    /\ [][\A id \in SingleJobIds : \A outcome \in storedSolutions(id) :
              SingleResubmit(id, outcome) =>
                  /\ completedJobs' = completedJobs
                  /\ currentBlueprints' = currentBlueprints]_vars

----------------------------------------------------------------------------
(* The final board and the clues *)

\* every clue of the puzzle has its value in the board
agreesOnClues(puzzle, board) ==
    \A i, j \in 0..(Size(puzzle) - 1) : puzzle[i][j] # 0 => board[i][j] = puzzle[i][j]

\* SudokuSolver.hybridSolve of the Column slave with every order the shuffle
\* of stochasticBacktrackColumn can produce: any valid filling is returned
columnHybridSolveAny(column, originalBoard, colIndex) ==
    LET propagated == applyNakedSinglesForColumn(column, originalBoard, colIndex)
        constraintColumn == propagated.column
        emptyPositions == {row \in DOMAIN column : constraintColumn[row] = 0}
        stochastic == columnFillings(constraintColumn, originalBoard, colIndex,
                                     emptyPositions)
    IN IF emptyPositions = {}
       THEN {[column |-> constraintColumn, sure |-> propagated.sureMask]}
       ELSE IF stochastic # {}
       THEN {[column |-> c, sure |-> propagated.sureMask] : c \in stochastic}
       ELSE {[column |-> c, sure |-> [row \in DOMAIN column |-> FALSE]] :
                c \in backtrackColumn(column, originalBoard, colIndex, emptyPositions)}

\* a worker finishes solveSubJob with any column hybridSolve can return
ColumnResultAny(w) ==
    /\ slaves[w] # {}
    /\ slaves' = [slaves EXCEPT ![w] = {}]
    /\ \E job \in slaves[w] :
          LET results == columnHybridSolveAny(job.board, job.originalBoard, job.colIndex)
          IN IF results = {} THEN ColumnCommit(ColumnMaster)
             ELSE \E result \in results :
                     ColumnCommit(columnPostResult(ColumnMaster,
                         [id |-> job.id, board |-> result.column,
                          colIndex |-> job.colIndex, sure |-> result.sure], now))
    /\ UNCHANGED <<now, initialBlueprintStore, response, notInColumnMaster>>

\* the ColumnBasedSolver master with one puzzle of two solutions
NextColumnClues ==
    \/ ColumnSolve(Rectangle)
    \/ \E w \in ColumnWorkers : ColumnQueue(w)
    \/ \E w \in ColumnWorkers : ColumnResultAny(w)
    \/ ColumnCheckAndCombineResults
    \/ ColumnTick

SpecColumnClues == Init /\ [][NextColumnClues]_vars

\* C32: a board that a step records as the final solution of a job has, in
\* every cell that is non-zero in the board as submitted, the value of the
\* submitted board
FinalAgreesWithClues ==
    [][\A jobId \in DOMAIN finalSolvedResults' :
           (~Has(finalSolvedResults, jobId)
              /\ (Has(initialBlueprintStore, jobId) \/ Has(initialBlueprintStore', jobId))) =>
               agreesOnClues(IF Has(initialBlueprintStore, jobId)
                             THEN initialBlueprintStore[jobId]
                             ELSE initialBlueprintStore'[jobId],
                             finalSolvedResults'[jobId].board)]_vars

----------------------------------------------------------------------------
(* The round after a selective requeue of the Column master *)

\* the sub-jobs of jobId made by requeueConflictingColumns: their index lies
\* past the indices of the split
isSelective(job, jobId) ==
    job.id[1] = jobId /\ job.id[2] > Len(originalSubJobsStore[jobId])

\* conflicting columns of jobId were requeued, every one of the requeued
\* sub-jobs has returned its result, and the job has not stalled
selectiveRoundReturned(jobId) ==
    /\ Has(completedJobs, jobId)
    /\ \E k \in DOMAIN completedJobs[jobId] : isSelective(completedJobs[jobId][k], jobId)
    /\ \A k \in DOMAIN jobQueue : ~isSelective(jobQueue[k], jobId)
    /\ \A w \in ColumnWorkers : \A job \in slaves[w] : ~isSelective(job, jobId)
    /\ now - OrElse(lastUpdateTimes, jobId, 0) <= ColumnStallMs

\* C33: once every column of a selective requeue has returned its result,
\* the next periodic check combines the board and evaluates it, so that it
\* records the solution or requeues; it does not leave the job as it is
\* until the stall threshold has passed
SelectiveRoundCombines ==
    [][\A jobId \in DOMAIN originalSubJobsStore :
           (selectiveRoundReturned(jobId) /\ ColumnCheckAndCombineResults) =>
               \/ Has(finalSolvedResults', jobId)
               \/ \E k \in DOMAIN jobQueue' :
                      jobQueue'[k].id[1] = jobId /\ jobQueue'[k] \notin Range(jobQueue)
      ]_vars

----------------------------------------------------------------------------
(* Two POST /solve in one millisecond *)

\* POST /solve that reads from Date.now() the job id of a job the master
\* already holds, with another board: the clock has not advanced since that
\* job was accepted
SolveSameMs(board) ==
    /\ Has(jobStartTimes, now)
    /\ jobStartTimes[now] = now
    /\ Has(initialBlueprintStore, now)
    /\ initialBlueprintStore[now] # board
    /\ solveFrom([Master EXCEPT !.jobStartTimes = Put(@, now, now),
                                !.initialBlueprintStore = Put(@, now, board),
                                !.iterationCounts = Put(@, now, 1)],
                 now, applyNakedSingles(board), now)
    /\ UNCHANGED <<now, slaves, otherMasters>>

NextSameMs ==
    \/ Solve(Rectangle)
    \/ SolveSameMs(Offset)
    \/ \E w \in Workers : Queue(w)
    \/ \E w \in Workers : Result(w)
    \/ CheckAndCombineResults

SpecSameMs == Init /\ [][NextSameMs]_vars

\* what the master holds of the puzzle and the progress of a job
jobData(jobId) ==
    <<IF Has(initialBlueprintStore, jobId) THEN {initialBlueprintStore[jobId]} ELSE {},
      IF Has(currentBlueprintStore, jobId) THEN {currentBlueprintStore[jobId]} ELSE {},
      OrEmptyList(completedJobs, jobId),
      OrEmptyList(originalSubJobsStore, jobId)>>

\* C34: an accepted POST /solve gets a job id that no other job has, so that
\* the puzzle, the blueprint, the sub-jobs and the results of every job the
\* master already holds are after the request what they were before it -
\* also when the request arrives in the millisecond of an earlier one
JobIsolation ==
    [][\A board \in {Rectangle, Offset} :
           (Solve(board) \/ SolveSameMs(board)) =>
               /\ now \notin knownJobs
               /\ \A jobId \in knownJobs : jobData(jobId)' = jobData(jobId)]_vars

----------------------------------------------------------------------------
(* The unsolvable report of the Single slave *)

\* processJob when hybridSolve has returned a board and the POST of the
\* board is rejected (axios.post throws): the catch block posts the
\* unsolvable report, which the master receives
SinglePostFails(w) ==
    /\ w \notin stopped
    /\ slaves[w] # {}
    /\ slaves' = [slaves EXCEPT ![w] = {}]
    /\ \E held \in slaves[w] :
           /\ \E outcome \in hybridSolve(held.job.board) : ~outcome.unsolvable
           /\ singleResult(held.job.id, unsolvableOutcome)
    /\ UNCHANGED <<now, jobQueue, slaveStatus, stopped, response, stochasticSearchStores>>

NextPostFails ==
    \/ \E board \in {Rectangle, NoSolution} : SingleSolve(board)
    \/ \E w \in Workers : SingleQueue(w)
    \/ \E w \in Workers : SingleHeartbeat(w)
    \/ \E w \in Workers : SingleResult(w)
    \/ \E w \in Workers : SinglePostFails(w)
    \/ SingleTick
    \/ \E jobId \in SingleJobIds : SingleGetResult(jobId)

SpecPostFails == Init /\ [][NextPostFails]_vars

\* C35: once a solved board is the stored result of a job, it stays the
\* board that GET /result/:jobId returns, whatever is posted for the job
\* later
SolutionKept ==
    [][\A id \in DOMAIN completedJobs :
           (completedJobs[id] # <<>> /\ ~completedJobs[id][1].unsolvable) =>
               /\ Has(completedJobs', id)
               /\ completedJobs'[id] # <<>>
               /\ completedJobs'[id][1] = completedJobs[id][1]]_vars

\* C36: a worker's step leaves the unsolvable report as the result of a job
\* only when hybridSolve fails on the board of the job
UnsolvableOnlyOnFailure ==
    [][\A w \in Workers :
           (SingleResult(w) \/ SinglePostFails(w)) =>
               \A held \in slaves[w] :
                   (/\ Has(completedJobs', held.job.id)
                    /\ completedJobs'[held.job.id] = <<unsolvableOutcome>>) =>
                       unsolvableOutcome \in hybridSolve(held.job.board)]_vars

----------------------------------------------------------------------------
(* BackTracking: the solver, the master and the slave                      *)
(* (solver.js and master.js, port 3050, in src/unnamed/part_001;           *)
(* SudokuSingle/src/BackTracking/slave/slave.js).  The master's stores and *)
(* its sweep are those of the Single master; its isValid and its           *)
(* applyNakedSinglesToBoard are the Single master's, and the solver's      *)
(* isValid and applyNakedSingles are isValidPlacement and                  *)
(* solverApplyNakedSingles of the Single solver, statement for statement.  *)

\* the position findEmptyPosition returns, none for null
findEmptyPosition(board) ==
    LET n == Size(board)
        empty == getAllEmptyCells(board)
    IN IF empty = {} THEN {}
       ELSE {CHOOSE x \in empty : \A y \in empty : x[1] * n + x[2] <= y[1] * n + y[2]}

\* backtrackingSolver with its loop at num: the board it leaves when it
\* returns true, none when it returns false
RECURSIVE backtrackingSolver(_, _)
backtrackingSolver(board, num) ==
    Value(findEmptyPosition(board), LAMBDA found :
        IF found = {} THEN {board}
        ELSE IF num > Size(board) THEN {}
        ELSE LET pos == CHOOSE x \in found : TRUE
             IN Value(IF isValidPlacement(board, pos[1], pos[2], num)
                      THEN backtrackingSolver(SetCell(board, pos[1], pos[2], num), 1)
                      ELSE {},
                      LAMBDA solved : IF solved # {} THEN solved
                                      ELSE backtrackingSolver(board, num + 1)))

\* solveSudoku: the solved copy of the board, none for null
solveSudoku(board) ==
    Value(solverApplyNakedSingles(board), LAMBDA boardCopy : backtrackingSolver(boardCopy, 1))

\* POST /solve of the BackTracking master
BacktrackSolve(board) ==
    /\ Cardinality(DOMAIN currentBlueprints) < MaxSingleJobs
    /\ now \notin DOMAIN currentBlueprints
    /\ IF ~isValidGrid(board)
       THEN /\ response' = [status |-> "400", solvedBoard |-> {}, partialBoard |-> {}]
            /\ UNCHANGED <<jobQueue, currentBlueprints>>
       ELSE \E partialBoard \in {applyNakedSinglesToBoard(board)} :
            /\ jobQueue' = Append(jobQueue, [id |-> now, board |-> board,
                                             partialBoard |-> partialBoard])
            /\ currentBlueprints' = Put(currentBlueprints, now, {partialBoard})
            /\ response' = [status |-> "200", solvedBoard |-> {},
                            partialBoard |-> {partialBoard}]
    /\ UNCHANGED <<now, completedJobs, pendingJobs, slaveStatus, slaves, stopped,
                   stochasticSearchStores>>

\* the slave process starts: sendHeartbeat() of line 17, then pollJobs()
BacktrackStart(w) ==
    /\ w \notin stopped
    /\ w \notin keysOf(slaveStatus)
    /\ slaves[w] = {}
    /\ slaveStatus' = assign(slaveStatus, w, now)
    /\ UNCHANGED <<now, jobQueue, completedJobs, pendingJobs, currentBlueprints,
                   slaves, stopped, response, stochasticSearchStores>>

\* GET /queue?slaveId=w by the pollJobs loop of a started slave, and the
\* entry into processJob: solveSudoku runs from here on
BacktrackQueue(w) ==
    /\ w \notin stopped
    /\ w \in keysOf(slaveStatus)
    /\ slaves[w] = {}
    /\ jobQueue # <<>>
    /\ jobQueue' = shift(jobQueue).rest
    /\ pendingJobs' = assign(pendingJobs, shift(jobQueue).job.id,
                             [job |-> shift(jobQueue).job, slaveId |-> w,
                              assignedAt |-> now])
    /\ slaves' = [slaves EXCEPT ![w] = {[job |-> shift(jobQueue).job, since |-> now]}]
    /\ UNCHANGED <<now, completedJobs, currentBlueprints, slaveStatus, stopped,
                   response, stochasticSearchStores>>

\* POST /result of the BackTracking master with { id, solvedBoard }
backtrackResult(id, solvedBoard) ==
    /\ pendingJobs' = remove(pendingJobs, id)
    /\ completedJobs' =
           IF \E k \in 1..Len(OrEmptyList(completedJobs, id)) :
                  OrEmptyList(completedJobs, id)[k] = solvedBoard
           THEN Put(completedJobs, id, OrEmptyList(completedJobs, id))
           ELSE Put(completedJobs, id, Append(OrEmptyList(completedJobs, id), solvedBoard))
    /\ currentBlueprints' = Put(currentBlueprints, id, {solvedBoard})

\* the rest of processJob: solveSudoku has returned, after however long it
\* took; for null the function returns, for a board it posts the result.
\* solveSudoku is synchronous, so no timer ran since the job was fetched:
\* the heartbeat interval, if it came due meanwhile, fires once now
BacktrackResult(w) ==
    /\ w \notin stopped
    /\ slaves[w] # {}
    /\ slaves' = [slaves EXCEPT ![w] = {}]
    /\ \E held \in slaves[w] :
           /\ \E solvedBoard \in {solveSudoku(held.job.board)} :
                  IF solvedBoard = {}
                  THEN UNCHANGED <<pendingJobs, completedJobs, currentBlueprints>>
                  ELSE \E solved \in solvedBoard : backtrackResult(held.job.id, solved)
           /\ slaveStatus' = IF now > held.since THEN assign(slaveStatus, w, now)
                             ELSE slaveStatus
    /\ UNCHANGED <<now, jobQueue, stopped, response, stochasticSearchStores>>

\* setInterval(sendHeartbeat, 30000) of the slaves from w on at time t: the
\* callback runs in the slaves that have started and are not inside
\* solveSudoku
RECURSIVE sendHeartbeats(_, _, _)
sendHeartbeats(status, w, t) ==
    IF w > NumWorkers THEN status
    ELSE sendHeartbeats(IF w \notin stopped /\ w \in keysOf(status) /\ slaves[w] = {}
                        THEN assign(status, w, t) ELSE status,
                        w + 1, t)

\* the clock advances by one heartbeat period: the heartbeats of the slaves
\* arrive, and the sweep runs when its interval has elapsed
BacktrackTick ==
    /\ now + HeartbeatMs <= MaxBeats * HeartbeatMs
    /\ now' = now + HeartbeatMs
    /\ \E beaten \in {[SingleMaster EXCEPT
                          !.slaveStatus = sendHeartbeats(slaveStatus, 1, now')]} :
       \E m \in {IF now' % SweepMs = 0 THEN sweep(beaten, now') ELSE beaten} :
                /\ jobQueue' = m.jobQueue
                /\ pendingJobs' = m.pendingJobs
                /\ slaveStatus' = m.slaveStatus
    /\ UNCHANGED <<completedJobs, currentBlueprints, slaves, stopped, response,
                   stochasticSearchStores>>

NextBacktrack ==
    \/ \E board \in {Rectangle, NoSolution} : BacktrackSolve(board)
    \/ \E w \in Workers : BacktrackStart(w)
    \/ \E w \in Workers : BacktrackQueue(w)
    \/ \E w \in Workers : BacktrackResult(w)
    \/ BacktrackTick

SpecBacktrack == Init /\ [][NextBacktrack]_vars

\* every slave stays alive: its pollJobs loop asks /queue every second while
\* it is idle, and solveSudoku, a finite search, returns
SpecBacktrackFair ==
    /\ SpecBacktrack
    /\ \A w \in Workers : WF_vars(BacktrackStart(w))
    /\ \A w \in Workers : WF_vars(BacktrackQueue(w))
    /\ \A w \in Workers : WF_vars(BacktrackResult(w))
    /\ WF_vars(BacktrackTick)

\* C37: every job pulled by a worker that stays alive eventually leaves the
\* master's pending-assignment map, also when the solver finds no solution
PulledJobLeavesPending ==
    \A id \in SingleJobIds :
        (id \in keysOf(pendingJobs)) ~> (id \notin keysOf(pendingJobs))

\* a pending job whose slave has left processJob and goes on sending its
\* heartbeats stays pending with that slave after every step, at whatever
\* time the step is taken
AbandonedStaysPending ==
    [][\A k \in 1..Len(pendingJobs) :
           (/\ slaves[pendingJobs[k].value.slaveId] = {}
            /\ pendingJobs[k].value.slaveId \in keysOf(slaveStatus)) =>
               /\ pendingJobs[k].key \in keysOf(pendingJobs')
               /\ valueOf(pendingJobs', pendingJobs[k].key).slaveId
                      = pendingJobs[k].value.slaveId
               /\ slaves'[pendingJobs[k].value.slaveId] = {}
               /\ pendingJobs[k].value.slaveId \in keysOf(slaveStatus')]_vars

\* C38: the sweep never re-enqueues the job of a live worker: a pending job
\* whose worker is running and working on it is still pending after a sweep
BusyWorkerKeepsJob ==
    [][BacktrackTick =>
           \A k \in 1..Len(pendingJobs) :
               (/\ pendingJobs[k].value.slaveId \notin stopped
                /\ \E held \in slaves[pendingJobs[k].value.slaveId] :
                       held.job.id = pendingJobs[k].key) =>
                   /\ pendingJobs[k].key \in keysOf(pendingJobs')
                   /\ \A q \in 1..Len(jobQueue') : jobQueue'[q].id # pendingJobs[k].key]_vars

----------------------------------------------------------------------------
(* Where the Single master holds a job *)

\* the places of the job queue that hold the job
queuedAt(id) == {q \in 1..Len(jobQueue) : jobQueue[q].id = id}

\* the entries of the pending-assignment map for the job
pendingAt(id) == {k \in 1..Len(pendingJobs) : pendingJobs[k].key = id}

\* POST /solve in the millisecond of an earlier POST /solve, before any
\* worker has asked for a job: Date.now() is the id of a job the master holds
\* already
SingleSolveSameMs(board) ==
    /\ Has(currentBlueprints, now)
    /\ ~Has(completedJobs, now)
    /\ pendingJobs = <<>>
    /\ Len(jobQueue) < MaxPolledJobs
    /\ singleSolve(board)

NextSingleSameMs ==
    \/ SingleSolve(Rectangle)
    \/ \E board \in {Rectangle, NoSolution} : SingleSolveSameMs(board)
    \/ \E w \in Workers : SingleQueue(w)
    \/ \E w \in Workers : SingleHeartbeat(w)
    \/ \E w \in Workers : SingleResult(w)
    \/ PollTick

SpecSingleSameMs == Init /\ [][NextSingleSameMs]_vars

\* C39: a job is never in the job queue and in the pending-assignment map at
\* the same time, it is queued at most once and has at most one pending
\* assignment, and every accepted job without a stored result is in the
\* queue or in the pending map
SingleJobAccounting ==
    \A id \in SingleJobIds :
        /\ queuedAt(id) = {} \/ pendingAt(id) = {}
        /\ Cardinality(queuedAt(id)) <= 1
        /\ Cardinality(pendingAt(id)) <= 1
        /\ (Has(currentBlueprints, id) /\ ~Has(completedJobs, id)) =>
               queuedAt(id) # {} \/ pendingAt(id) # {}

====
